---- MODULE Spec2Model ----
(***************************************************************************)
(* Verification model of py-pde: Cartesian grids (pde/grids/cartesian.py), *)
(* their bounding cuboid (pde/tools/cuboid.py) and the coordinate-system   *)
(* base class (pde/grids/coordinates/base.py).                             *)
(*                                                                         *)
(* Numbers.  A coordinate is a binary floating-point number.  It is kept   *)
(* as an integer count of the smallest unit 1/One, and every arithmetic    *)
(* operation of the code rounds its exact result to MantissaBits           *)
(* significant bits, ties to even, as IEEE arithmetic does (with a         *)
(* narrower mantissa than the 53 bits of np.double).                       *)
(***************************************************************************)
EXTENDS Integers, Sequences, FiniteSets, TLC

\* ------------------------------------------------------------------ bounds
\* largest number of grid axes that is constructed
MaxDim == 2
\* largest number of cells along one axis
MaxCells == 2
\* significant bits of the modelled floating-point numbers
MantissaBits == 4
\* bits of the numbers the random number generator returns
RandBits == 2
\* largest scale factor of a coordinate system
MaxScale == 2

\* ------------------------------------------------------- number arithmetic
\* the value 1.0 in units of the smallest representable step
One == 2^10

Abs(x) == IF x < 0 THEN -x ELSE x

Sgn(x) == IF x < 0 THEN -1 ELSE 1

Min2(a, b) == IF a <= b THEN a ELSE b

Max2(a, b) == IF a <= b THEN b ELSE a

RECURSIVE Expo(_, _, _)
\* smallest binary exponent e >= 0 with a / den < 2^(MantissaBits + e)
Expo(a, den, e) == IF a < (2^(MantissaBits + e)) * den THEN e ELSE Expo(a, den, e + 1)

\* a / den (a >= 0, den > 0) rounded to a multiple of 2^e, ties to even
RoundTo(a, den, e) ==
    LET d == den * (2^e)
        n == a \div d
        r == a - n * d
    IN  (IF 2 * r > d \/ (2 * r = d /\ n % 2 = 1) THEN n + 1 ELSE n) * (2^e)

\* the floating-point number nearest to the rational num / den (den > 0)
Round(num, den) == Sgn(num) * RoundTo(Abs(num), den, Expo(Abs(num), den, 0))

FAdd(x, y) == Round(x + y, 1)

FSub(x, y) == Round(x - y, 1)

\* x * (p / q) for a factor p / q that is itself exactly representable
FMul(x, p, q) == Round(x * p, q)

\* x / n for an integer n > 0
FDiv(x, n) == Round(x, n)

Axes(seq) == 1..Len(seq)

\* -------------------------------------------------------------- Cuboid
Cuboid_size_setter_NoFlip(pos, value, mutable) ==
    [pos |-> pos, size |-> [k \in Axes(pos) |-> Abs(value[k])], mutable |-> mutable]

\* Cuboid.size setter on a cuboid with position `pos` (same length as value):
\* the negative entries of the size are flipped
Cuboid_size_setter(pos, value, mutable) ==
    [pos     |-> [k \in Axes(pos) |-> IF value[k] < 0 THEN FAdd(pos[k], value[k]) ELSE pos[k]],
     size    |-> [k \in Axes(pos) |-> Abs(value[k])],
     mutable |-> mutable]

\* Cuboid(pos, size, mutable)
Cuboid_init(pos, size, mutable) == Cuboid_size_setter(pos, size, mutable)

\* Cuboid.from_bounds(bounds, mutable=...), bounds a sequence of <<lower, upper>>
Cuboid_from_bounds(bounds, mutable) ==
    Cuboid_init([k \in Axes(bounds) |-> bounds[k][1]],
                [k \in Axes(bounds) |-> FSub(bounds[k][2], bounds[k][1])],
                mutable)

\* Cuboid.corners: the two extreme corners
Cuboid_corners(c) == << c.pos, [k \in Axes(c.pos) |-> FAdd(c.pos[k], c.size[k])] >>

Cuboid_bounds_PosSize(c) == [k \in Axes(c.pos) |-> << c.pos[k], c.size[k] >>]

\* Cuboid.bounds: one (lower, upper) pair per axis
Cuboid_bounds(c) == [k \in Axes(c.pos) |-> << c.pos[k], FAdd(c.pos[k], c.size[k]) >>]

\* Cuboid.dim
Cuboid_dim(c) == Len(c.pos)

\* Cuboid.buffer(amount, inplace=False): a new, mutable cuboid
Cuboid_buffer(c, amount) ==
    Cuboid_init([k \in Axes(c.pos) |-> FSub(c.pos[k], amount)],
                [k \in Axes(c.pos) |-> FAdd(c.size[k], 2 * amount)],
                TRUE)

\* ---------------------------------------------------------------- grids
\* the value of a variable that holds no grid
NoGrid == [cls |-> "none"]

IsGrid(g) == g.cls # "none"

\* _check_shape: a shape is a non-empty sequence of cell counts >= 1
check_shape_ok(shape) == Len(shape) >= 1 /\ \A k \in Axes(shape) : shape[k] >= 1

\* discretize_interval(x_min, x_max, num): cell centres and step of one axis
discretize_interval(x_min, x_max, num) ==
    LET dx == FDiv(FSub(x_max, x_min), num)
    IN  [dx |-> dx,
         coords |-> [i \in 1..num |-> FAdd(FMul(dx, 2 * (i - 1) + 1, 2), x_min)]]

\* axis names of CartesianCoordinates(dim)
AxisNames(dim) == [k \in 1..dim |-> <<"x", "y", "z", "w">>[k]]

\* CartesianGrid.__init__: a shape of length 1 is repeated for every axis
broadcast_shape(shape, dim) ==
    IF Len(shape) = 1 /\ dim > 1 THEN [k \in 1..dim |-> shape[1]] ELSE shape

periodic_mismatch_Unchecked(periodic, dim) == FALSE

\* CartesianGrid.__init__: a sequence `periodic` must have one flag per axis
periodic_mismatch(periodic, dim) == ~periodic.scalar /\ Len(periodic.flags) # dim

\* CartesianGrid.__init__, the coordinates: steps, cell centres and bounds of
\* the axes of the cuboid
CartesianGrid_coordinates(cuboid, shape, flags) ==
    LET dim == Cuboid_dim(cuboid)
        corners == Cuboid_corners(cuboid)
        disc == [k \in 1..dim |-> discretize_interval(corners[1][k], corners[2][k], shape[k])]
    IN  [cls            |-> "CartesianGrid",
         cuboid         |-> cuboid,
         shape          |-> shape,
         periodic       |-> flags,
         discretization |-> [k \in 1..dim |-> disc[k].dx],
         axes_coords    |-> [k \in 1..dim |-> disc[k].coords],
         axes_bounds    |-> Cuboid_bounds(cuboid),
         axes           |-> AxisNames(dim)]

\* CartesianGrid.__init__, after the cuboid is set: shape and periodic
CartesianGrid_axes(cuboid, shape, periodic) ==
    LET dim == Cuboid_dim(cuboid)
        shape1 == broadcast_shape(shape, dim)
        flags  == IF periodic.scalar THEN [k \in 1..dim |-> periodic.flags[1]] ELSE periodic.flags
    IN  IF ~check_shape_ok(shape) THEN [err |-> "ValueError", grid |-> NoGrid]
        ELSE IF dim # Len(shape1) THEN [err |-> "DimensionError", grid |-> NoGrid]
        ELSE IF periodic_mismatch(periodic, dim) THEN [err |-> "DimensionError", grid |-> NoGrid]
        ELSE [err |-> "none", grid |-> CartesianGrid_coordinates(cuboid, shape1, flags)]

\* np.atleast_1d(np.squeeze(bounds_arr)) for an array whose second extent is 1
\* (or that is flat): the axes of extent 1 are dropped
squeeze(bounds) ==
    IF bounds.ndim = 3 /\ Len(bounds.rows) = 1 THEN bounds.rows[1][1]
    ELSE IF bounds.ndim = 3 THEN [k \in Axes(bounds.rows) |-> bounds.rows[k][1][1]]
    ELSE [k \in Axes(bounds.rows) |-> bounds.rows[k][1]]

\* CartesianGrid.__init__(bounds, shape, periodic).
\*   bounds   : [ndim, rows], the array np.array(bounds, ndmin=1) with its
\*              number of dimensions; a flat array (ndim = 1) has one number
\*              per row, an array with ndim = 3 has rows of rows
\*   shape    : a sequence of cell counts (a single integer n is <<n>>)
\*   periodic : [scalar, flags]; a single boolean b is [scalar |-> TRUE, flags |-> <<b>>]
CartesianGrid_init(bounds, shape, periodic) ==
    LET rows  == bounds.rows
        width == IF bounds.ndim = 1 THEN 1 ELSE Len(rows[1])
    IN  IF bounds.ndim = 1 /\ Len(rows) = 2 THEN [err |-> "ValueError", grid |-> NoGrid]
        ELSE IF width = 1
        THEN CartesianGrid_axes(
                 Cuboid_init([k \in Axes(squeeze(bounds)) |-> 0], squeeze(bounds), FALSE),
                 shape, periodic)
        ELSE IF bounds.ndim = 2 /\ width = 2
        THEN CartesianGrid_axes(Cuboid_from_bounds(rows, FALSE), shape, periodic)
        ELSE [err |-> "ValueError", grid |-> NoGrid]

\* UnitGrid.__init__, after CartesianGrid.__init__ has returned `base`: the
\* cuboid, steps, cell centres and bounds are set anew
UnitGrid_coordinates(base) ==
    LET g    == base.grid
        dim  == Len(base.grid.shape)
        cuboid == Cuboid_init([k \in 1..dim |-> 0], [k \in 1..dim |-> g.shape[k] * One], TRUE)
    IN  IF base.err # "none" THEN base
        ELSE [err |-> "none",
              grid |-> [g EXCEPT !.cls = "UnitGrid",
                                 !.cuboid = cuboid,
                                 !.discretization = [k \in 1..dim |-> One],
                                 !.axes_coords =
                                     [k \in 1..dim |->
                                         [i \in 1..g.shape[k] |-> (i - 1) * One + One \div 2]],
                                 !.axes_bounds = Cuboid_bounds(cuboid)]]

\* UnitGrid.__init__(shape, periodic)
UnitGrid_init(shape, periodic) ==
    UnitGrid_coordinates(
        CartesianGrid_init(
            [ndim |-> 2, rows |-> [k \in Axes(shape) |-> <<0, shape[k] * One>>]],
            shape, periodic))

\* CartesianGrid.state
CartesianGrid_state(g) == [bounds |-> g.axes_bounds, shape |-> g.shape, periodic |-> g.periodic]

\* CartesianGrid.from_state(state)
CartesianGrid_from_state(state) ==
    CartesianGrid_init([ndim |-> 2, rows |-> state.bounds], state.shape,
                       [scalar |-> FALSE, flags |-> state.periodic])

\* UnitGrid.state
UnitGrid_state(g) == [shape |-> g.shape, periodic |-> g.periodic]

\* UnitGrid.from_state(state)
UnitGrid_from_state(state) ==
    UnitGrid_init(state.shape, [scalar |-> FALSE, flags |-> state.periodic])

\* g.__class__.from_state(g.state)
StateRoundTrip(g) ==
    IF g.cls = "UnitGrid" THEN UnitGrid_from_state(UnitGrid_state(g))
    ELSE CartesianGrid_from_state(CartesianGrid_state(g))

WithAxes_Default(r, g, indices) == r

\* the subgrid with the axis names of the retained axes
WithAxes(r, g, indices) ==
    IF r.err # "none" THEN r
    ELSE [r EXCEPT !.grid.axes = [j \in Axes(indices) |-> g.axes[indices[j]]]]

\* CartesianGrid.slice(indices); self is left as it is
CartesianGrid_slice(g, indices) ==
    [self |-> g,
     ret  |-> WithAxes(
                 CartesianGrid_init(
                     [ndim |-> 2, rows |-> [j \in Axes(indices) |-> g.axes_bounds[indices[j]]]],
                     [j \in Axes(indices) |-> g.shape[indices[j]]],
                     [scalar |-> FALSE, flags |-> [j \in Axes(indices) |-> g.periodic[indices[j]]]]),
                 g, indices)]

\* UnitGrid.slice(indices); self is left as it is
UnitGrid_slice(g, indices) ==
    [self |-> g,
     ret  |-> WithAxes(
                 UnitGrid_init(
                     [j \in Axes(indices) |-> g.shape[indices[j]]],
                     [scalar |-> FALSE, flags |-> [j \in Axes(indices) |-> g.periodic[indices[j]]]]),
                 g, indices)]

UnitGrid_to_cartesian_Flat(g) ==
    CartesianGrid_init([ndim |-> 1, rows |-> [k \in Axes(g.shape) |-> << g.cuboid.size[k] >>]],
                       g.shape, [scalar |-> FALSE, flags |-> g.periodic])

\* UnitGrid.to_cartesian()
UnitGrid_to_cartesian(g) ==
    CartesianGrid_init([ndim |-> 2, rows |-> Cuboid_bounds(g.cuboid)], g.shape,
                       [scalar |-> FALSE, flags |-> g.periodic])

GridBase_setattr_Assigns(g, name, value) ==
    [err |-> "none",
     self |-> IF name = "shape" THEN [g EXCEPT !.shape = << value >>]
              ELSE [g EXCEPT !.periodic = << value = 1 >>]]

\* `grid.shape = value` and `grid.periodic = value`: GridBase declares both as
\* properties without a setter
GridBase_setattr(g, name, value) == [err |-> "AttributeError", self |-> g]

\* --------------------------------------------------------------- points
\* A point is a sequence of coordinates; a coordinate handed to or returned
\* by transform is a fraction <<numerator, denominator>> of units, and a
\* denominator 0 stands for a non-finite value (nan or inf).
Rat(x) == << x, 1 >>

NotFinite == << 0, 0 >>

REq(a, b) == a[2] # 0 /\ b[2] # 0 /\ a[1] * b[2] = b[1] * a[2]

PointEq(p, q) == Len(p) = Len(q) /\ \A k \in Axes(p) : REq(p[k], q[k])

\* GridBase.transform of one point between "cartesian", "grid" and "cell"
transform_point(g, p, source, target) ==
    LET to_grid(k) ==
            IF source # "cell" THEN p[k]
            ELSE IF p[k][2] = 0 THEN NotFinite
            ELSE << g.axes_bounds[k][1] * p[k][2] + p[k][1] * g.discretization[k], p[k][2] >>
        to_cell(x, k) ==
            IF x[2] = 0 \/ g.discretization[k] = 0 THEN NotFinite
            ELSE << x[1] - g.axes_bounds[k][1] * x[2], x[2] * g.discretization[k] >>
    IN  IF source = target THEN p
        ELSE IF target = "cell" THEN [k \in Axes(p) |-> to_cell(to_grid(k), k)]
        ELSE [k \in Axes(p) |-> to_grid(k)]

\* GridBase.transform(coordinates, source, target) of a batch of points
transform(g, points, source, target) ==
    IF \E i \in Axes(points) : Len(points[i]) # Len(g.shape)
    THEN [err |-> "DimensionError", ret |-> << >>]
    ELSE [err |-> "none",
          ret |-> [i \in Axes(points) |-> transform_point(g, points[i], source, target)]]

\* rng.random(dim) returns a multiple of 1 / RandDen in [0, 1) on every axis
RandDen == 2^RandBits

\* CartesianGrid.get_random_point(boundary_distance, coords), where rng.random(dim)
\* returns r[k] / RandDen on axis k
get_random_point(g, boundary_distance, coords, r) ==
    LET too_close == \E k \in Axes(g.shape) : g.cuboid.size[k] <= 2 * boundary_distance
        cuboid == IF boundary_distance # 0 THEN Cuboid_buffer(g.cuboid, -boundary_distance)
                  ELSE g.cuboid
        point == [k \in Axes(g.shape) |->
                     Rat(FAdd(cuboid.pos[k], FMul(cuboid.size[k], r[k], RandDen)))]
    IN  IF boundary_distance # 0 /\ too_close THEN [err |-> "RuntimeError", ret |-> << >>]
        ELSE IF coords \in {"cartesian", "grid"} THEN [err |-> "none", ret |-> << point >>]
        ELSE IF coords = "cell" THEN transform(g, << point >>, "grid", "cell")
        ELSE [err |-> "ValueError", ret |-> << >>]

\* itertools.product of a sequence of offset lists, in the order it yields
RECURSIVE Product(_)
Product(lists) ==
    IF Len(lists) = 0 THEN << << >> >>
    ELSE LET rest == Product(Tail(lists))
             row(i) == [j \in Axes(rest) |-> << lists[1][i] >> \o rest[j]]
             RECURSIVE Rows(_)
             Rows(i) == IF i > Len(lists[1]) THEN << >> ELSE row(i) \o Rows(i + 1)
         IN  Rows(1)

\* CartesianGrid.iter_mirror_points(point, with_self, only_periodic): the
\* sequence of points the generator yields
iter_mirror_points(g, point, with_self, only_periodic) ==
    LET offsets == [k \in Axes(g.shape) |->
                       IF only_periodic /\ ~g.periodic[k] THEN << 0 >>
                       ELSE << -g.cuboid.size[k], 0, g.cuboid.size[k] >>]
        all  == Product(offsets)
        keep(o) == with_self \/ \E k \in Axes(o) : o[k] # 0
        kept == SelectSeq(all, keep)
    IN  [i \in Axes(kept) |-> [k \in Axes(point) |-> FAdd(point[k], kept[i][k])]]

\* CartesianGrid.get_line_data(data, extract) for data of rank 0.
\*   data    : [shape, at], the shape of the array and its value at every index
\*   extract : [prefix, rest], the text up to and after the first "_"; "auto"
\*             has an empty rest
\* An axis is a zero-based index, as in the code; g.axes[axis] raises
\* IndexError for an index outside -dim..dim-1 and counts from the end for a
\* negative one. The values of data are such that their sums are exact.
get_line_data(g, data, extract) ==
    LET dim == Len(g.shape)
        numerals == << "-3", "-2", "-1", "0", "1", "2", "3" >>
        names == { k \in 1..dim : g.axes[k] = extract.rest }
        _get_axis(text) ==
            IF \E n \in Axes(numerals) : numerals[n] = text
            THEN [err |-> "none", axis |-> (CHOOSE n \in Axes(numerals) : numerals[n] = text) - 4]
            ELSE IF names # {}
            THEN [err |-> "none", axis |-> (CHOOSE k \in names : \A j \in names : k <= j) - 1]
            ELSE [err |-> "ValueError", axis |-> 0]
        method == IF extract.prefix = "auto" THEN "cut_" ELSE extract.prefix
        got == _get_axis(IF extract.prefix = "auto" THEN "0" ELSE extract.rest)
        axis == got.axis
        at == IF axis < 0 THEN axis + dim + 1 ELSE axis + 1
        along == IF axis \in 0..dim - 1 THEN g.shape[axis + 1] ELSE 0
        cells(i) == { c \in DOMAIN data.at : axis \in 0..dim - 1 => c[axis + 1] = i }
        mid(i) == [k \in 1..dim |-> IF k = axis + 1 THEN i ELSE g.shape[k] \div 2 + 1]
        RECURSIVE total(_)
        total(S) == IF S = {} THEN 0
                    ELSE LET c == CHOOSE c \in S : TRUE
                         IN  data.at[c] + total(S \ { c })
        value(i) == IF method = "cut_" THEN data.at[mid(i)]
                    ELSE Round(total(cells(i)), Cardinality(cells(i)))
    IN  IF data.shape # g.shape THEN [err |-> "ValueError", ret |-> << >>]
        ELSE IF method \notin { "cut_", "project_" } THEN [err |-> "ValueError", ret |-> << >>]
        ELSE IF got.err # "none" THEN [err |-> "ValueError", ret |-> << >>]
        ELSE IF axis >= dim \/ axis < -dim THEN [err |-> "IndexError", ret |-> << >>]
        ELSE [err |-> "none",
              ret |-> [data_x   |-> g.axes_coords[at],
                       data_y   |-> IF along = 0 THEN value(0) ELSE [i \in 1..along |-> value(i)],
                       extent_x |-> g.axes_bounds[at],
                       label_x  |-> g.axes[at]]]

\* ------------------------------------------------------ CoordinatesBase
\* An array of points is described by its shape, a sequence of extents.  A
\* call returns the exception it raises ("none" if it returns) and the
\* sequence of subclass hooks (_pos_to_cart, _scale_factors, ...) it has
\* invoked up to then.  The coordinate system is a concrete subclass that
\* supplies every hook.
atleast_1d(shape) == IF Len(shape) = 0 THEN << 1 >> ELSE shape

\* shape[axis] for a Python index `axis`; 0 when the index is out of range
Extent(shape, axis) ==
    LET i == IF axis < 0 THEN Len(shape) + axis + 1 ELSE axis + 1
    IN  IF i \in Axes(shape) THEN shape[i] ELSE 0

AxisInRange(shape, axis) == Extent(atleast_1d(shape), axis) # 0

Returned(hooks) == [err |-> "none", hooks |-> hooks]

Raised(e, hooks) == [err |-> e, hooks |-> hooks]

\* the common body of pos_to_cart and pos_from_cart
convert_along_axis(dim, points, axis, hook) ==
    LET pts == atleast_1d(points)
    IN  IF ~AxisInRange(points, axis) THEN Raised("IndexError", << >>)
        ELSE IF Extent(pts, axis) # dim THEN Raised("DimensionError", << >>)
        ELSE Returned(<< hook >>)

\* CoordinatesBase.pos_to_cart(points, axis=axis)
pos_to_cart(dim, points, axis) == convert_along_axis(dim, points, axis, "_pos_to_cart")

\* CoordinatesBase.pos_from_cart(points, axis=axis)
pos_from_cart(dim, points, axis) == convert_along_axis(dim, points, axis, "_pos_from_cart")

\* CoordinatesBase.distance(p1, p2, axis=axis)
distance(dim, p1, p2, axis) ==
    LET x1 == pos_to_cart(dim, p1, axis)
        x2 == pos_to_cart(dim, p2, axis)
    IN  IF x1.err # "none" THEN x1
        ELSE IF x2.err # "none" THEN Raised(x2.err, x1.hooks)
        ELSE Returned(x1.hooks \o x2.hooks)

check_points_Skipped(dim, points, hook) == Returned(<< hook >>)

\* the common body of scale_factors, mapping_jacobian, volume_factor and
\* basis_rotation: check the last axis of the points, then call the hook
check_points(dim, points, hook) ==
    IF Extent(atleast_1d(points), -1) # dim THEN Raised("DimensionError", << >>)
    ELSE Returned(<< hook >>)

\* CoordinatesBase.scale_factors(points)
scale_factors(dim, points) == check_points(dim, points, "_scale_factors")

\* CoordinatesBase.mapping_jacobian(points)
mapping_jacobian(dim, points) == check_points(dim, points, "_mapping_jacobian")

\* CoordinatesBase.volume_factor(points)
volume_factor(dim, points) == check_points(dim, points, "_volume_factor")

\* CoordinatesBase.basis_rotation(points)
basis_rotation(dim, points) == check_points(dim, points, "_basis_rotation")

\* CoordinatesBase.metric(points): the diagonal of squared scale factors
metric(dim, points) == scale_factors(dim, points)

\* CoordinatesBase.cell_volume(c_low, c_high)
cell_volume(dim, c_low, c_high) ==
    IF Extent(atleast_1d(c_low), -1) # dim THEN Raised("DimensionError", << >>)
    ELSE IF Extent(atleast_1d(c_high), -1) # dim THEN Raised("DimensionError", << >>)
    ELSE Returned(<< "_cell_volume" >>)

\* CoordinatesBase.vec_to_cart(points, components); the rotation matrices the
\* subclass returns have the documented shape
vec_to_cart(dim, points, components) ==
    LET pts == atleast_1d(points)
        vec_shape == << dim >> \o SubSeq(pts, 1, Len(pts) - 1)
    IN  IF Extent(pts, -1) # dim THEN Raised("DimensionError", << >>)
        ELSE IF atleast_1d(components) # vec_shape THEN Raised("DimensionError", << >>)
        ELSE basis_rotation(dim, points)

\* CoordinatesBase._scale_factors, the default of a system that supplies its
\* own metric: computed from the diagonal `diag` of the metric
default_scale_factors(diag) == [k \in Axes(diag) |-> diag[k] ^ 2]

\* CoordinatesBase.metric, the default of a system that supplies its own scale
\* factors: the diagonal of the metric, computed from the scale factors
default_metric(factors) == [k \in Axes(factors) |-> factors[k] ^ 2]

\* scale_factors(points) of a concrete system whose true scale factors at the
\* points are h and which supplies `own` ("scale_factors" or "metric") itself
system_scale_factors(own, h) ==
    IF own = "scale_factors" THEN h
    ELSE default_scale_factors([k \in Axes(h) |-> h[k] * h[k]])

\* the diagonal of metric(points) of the same system
system_metric(own, h) ==
    IF own = "metric" THEN [k \in Axes(h) |-> h[k] * h[k]]
    ELSE default_metric(system_scale_factors(own, h))

\* ------------------------------------------------------------ the inputs
\* (lower, upper) pairs offered for one axis: ordinary, inexact difference,
\* reversed, and equal bounds
AxisPairs ==
    << <<0, 2 * One>>,
       <<(7 * One) \div 16, (13 * One) \div 8>>,
       <<One, -One>>,
       <<One, One>> >>

\* d consecutive entries of AxisPairs, starting at entry s
Window(s, d) == [k \in 1..d |-> AxisPairs[((s + k - 2) % Len(AxisPairs)) + 1]]

BoundsArgs ==
    { [ndim |-> 2, rows |-> Window(s, d)] : s \in Axes(AxisPairs), d \in 1..MaxDim }
    \cup { [ndim |-> n, rows |-> [k \in 1..d |-> << 2 * One >>]] : n \in 1..2, d \in 1..MaxDim + 1 }
    \cup { [ndim |-> 2, rows |-> << <<0, One, 2 * One>> >>] }
    \cup { [ndim |-> 3, rows |-> << << << One, 2 * One >> >> >>],
           [ndim |-> 3, rows |-> << << << One >>, << 2 * One >> >> >>] }

\* shapes: the same count on every axis, or counts that differ from axis to
\* axis; the count 0 is not a valid number of cells
ShapeArgs ==
    UNION { { [k \in 1..d |-> n] : n \in 0..MaxCells }
            \cup { [k \in 1..d |-> ((n + k - 1) % MaxCells) + 1] : n \in 1..MaxCells }
            : d \in 1..MaxDim }

PeriodicArgs ==
    { [scalar |-> TRUE, flags |-> << b >>] : b \in BOOLEAN }
    \cup { [scalar |-> FALSE, flags |-> f] : f \in UNION { [1..d -> BOOLEAN] : d \in 1..MaxDim } }

\* axes retained by slice: non-empty sequences of distinct axes of the grid
IndexArgs(g) ==
    { f \in UNION { [1..d -> Axes(g.shape)] : d \in 1..Len(g.shape) } :
        \A i, j \in Axes(f) : i # j => f[i] # f[j] }

\* boundary distances offered to get_random_point
DistanceArgs == { -One, 0, One \div 2, One }

\* points of the grid: its lower corner and the centre of its first cell
PointsIn(g) ==
    { [k \in Axes(g.shape) |-> g.axes_bounds[k][1]],
      [k \in Axes(g.shape) |-> g.axes_coords[k][1]] }

\* cell coordinates of the grid: 0 and 1/2 on every axis
CellsIn(g) ==
    { [k \in Axes(g.shape) |-> << 0, 1 >>], [k \in Axes(g.shape) |-> << 1, 2 >>] }

\* batches of at most one point given in the representation `source`
Batches(g, source) ==
    { << >> } \cup
    IF source = "cell" THEN { << c >> : c \in CellsIn(g) }
    ELSE { << [k \in Axes(p) |-> Rat(p[k])] >> : p \in PointsIn(g) }

Representations == { "cartesian", "cell", "grid" }

\* dimensions of the coordinate systems that are called
Dims == 1..MaxDim

\* shapes of the point arrays handed to a coordinate system: scalars, single
\* points and batches of points
PointShapes == UNION { [1..n -> 1..MaxDim + 1] : n \in 0..2 }

AxisArgs == { -1, 0, 1 }

\* ------------------------------------------------------------- the state
VARIABLES
    grid,     \* the grid the program holds (NoGrid before construction)
    before,   \* that grid as it was when the last operation was called
    out,      \* the grid the last operation returned (NoGrid if none)
    ret,      \* the points the last operation returned
    mid,      \* transform: the points in the intermediate representation
    op,       \* the last operation and its arguments
    err,      \* the exception the last operation raised, or "none"
    call,     \* the last call of a coordinate system and its outcome
    fld,      \* the last operation on field data and its outcome
    run,      \* the controller of a simulation run, its solver and its storage
    mpi,      \* the processes of a multi-process run
    cub       \* a cuboid object, the last operation on it and its outcome

vars == << grid, before, out, ret, mid, op, err, call, fld, run, mpi, cub >>

gridvars == << grid, before, out, ret, mid, op, err >>

NoCall == [method |-> "none"]

Init ==
    /\ grid = NoGrid
    /\ before = NoGrid
    /\ out = NoGrid
    /\ ret = << >>
    /\ mid = << >>
    /\ op = [name |-> "start"]
    /\ err = "none"
    /\ call = NoCall
    /\ fld = [op |-> "none"]
    /\ run = [status |-> "idle", id |-> 0, storage |-> << >>]
    /\ mpi = [phase |-> "none"]
    /\ cub = [op |-> "none"]

\* the program holds a grid and is about to call one of its methods
Ready == IsGrid(grid) /\ op.name = "next"

\* g = CartesianGrid(bounds, shape, periodic)
NewCartesian ==
    /\ UNCHANGED << call, fld, run, mpi, cub >>
    /\ op.name = "start"
    /\ \E b \in BoundsArgs, s \in ShapeArgs, p \in PeriodicArgs :
          LET r == CartesianGrid_init(b, s, p)
          IN  /\ grid' = r.grid
              /\ err' = r.err
              /\ op' = [name |-> "CartesianGrid", bounds |-> b, shape |-> s, periodic |-> p]
    /\ UNCHANGED << before, out, ret, mid >>

\* g = UnitGrid(shape, periodic)
NewUnit ==
    /\ UNCHANGED << call, fld, run, mpi, cub >>
    /\ op.name = "start"
    /\ \E s \in ShapeArgs, p \in PeriodicArgs :
          LET r == UnitGrid_init(s, p)
          IN  /\ grid' = r.grid
              /\ err' = r.err
              /\ op' = [name |-> "UnitGrid", shape |-> s, periodic |-> p]
    /\ UNCHANGED << before, out, ret, mid >>

\* g.__class__.from_state(g.state)
FromState ==
    /\ UNCHANGED << call, fld, run, mpi, cub >>
    /\ Ready
    /\ LET r == StateRoundTrip(grid)
       IN  /\ out' = r.grid
           /\ err' = r.err
    /\ op' = [name |-> "from_state"]
    /\ before' = grid
    /\ ret' = << >>
    /\ mid' = << >>
    /\ UNCHANGED grid

\* g.slice(indices)
Slice ==
    /\ UNCHANGED << call, fld, run, mpi, cub >>
    /\ Ready
    /\ \E indices \in IndexArgs(grid) :
          LET r == IF grid.cls = "UnitGrid" THEN UnitGrid_slice(grid, indices)
                   ELSE CartesianGrid_slice(grid, indices)
          IN  /\ grid' = r.self
              /\ out' = r.ret.grid
              /\ err' = r.ret.err
              /\ op' = [name |-> "slice", indices |-> indices]
    /\ before' = grid
    /\ ret' = << >>
    /\ mid' = << >>

\* g.to_cartesian()
ToCartesian ==
    /\ UNCHANGED << call, fld, run, mpi, cub >>
    /\ Ready
    /\ grid.cls = "UnitGrid"
    /\ LET r == UnitGrid_to_cartesian(grid)
       IN  /\ out' = r.grid
           /\ err' = r.err
    /\ op' = [name |-> "to_cartesian"]
    /\ before' = grid
    /\ ret' = << >>
    /\ mid' = << >>
    /\ UNCHANGED grid

\* g.shape = value, g.periodic = value
SetAttribute ==
    /\ UNCHANGED << call, fld, run, mpi, cub >>
    /\ Ready
    /\ \E name \in { "shape", "periodic" }, value \in { 12, 1 } :
          LET r == GridBase_setattr(grid, name, value)
          IN  /\ grid' = r.self
              /\ err' = r.err
              /\ op' = [name |-> "setattr", attr |-> name, value |-> value]
    /\ before' = grid
    /\ out' = NoGrid
    /\ ret' = << >>
    /\ mid' = << >>

\* g.get_random_point(boundary_distance=b, coords=c)
GetRandomPoint ==
    /\ UNCHANGED << call, fld, run, mpi, cub >>
    /\ Ready
    /\ \E b \in DistanceArgs, c \in { "cartesian", "cell" }, n \in { 0, RandDen - 1 } :
          LET r == [k \in Axes(grid.shape) |-> n] IN
          LET res == get_random_point(grid, b, c, r)
          IN  /\ ret' = res.ret
              /\ err' = res.err
              /\ op' = [name |-> "get_random_point", boundary_distance |-> b, coords |-> c]
    /\ before' = grid
    /\ out' = NoGrid
    /\ mid' = << >>
    /\ UNCHANGED grid

\* list(g.iter_mirror_points(point, with_self, only_periodic))
IterMirrorPoints ==
    /\ UNCHANGED << call, fld, run, mpi, cub >>
    /\ Ready
    /\ \E point \in PointsIn(grid), with_self \in BOOLEAN, only_periodic \in BOOLEAN :
          LET res == iter_mirror_points(grid, point, with_self, only_periodic)
          IN  /\ ret' = [i \in Axes(res) |-> [k \in Axes(res[i]) |-> Rat(res[i][k])]]
              /\ op' = [name |-> "iter_mirror_points",
                        point |-> [k \in Axes(point) |-> Rat(point[k])],
                        with_self |-> with_self, only_periodic |-> only_periodic]
    /\ err' = "none"
    /\ before' = grid
    /\ out' = NoGrid
    /\ mid' = << >>
    /\ UNCHANGED grid

\* g.transform(g.transform(points, source, target), target, source)
Transform ==
    /\ UNCHANGED << call, fld, run, mpi, cub >>
    /\ Ready
    /\ \E source \in Representations, target \in Representations :
       \E points \in Batches(grid, source) :
          LET there == transform(grid, points, source, target)
              back  == transform(grid, there.ret, target, source)
          IN  /\ mid' = there.ret
              /\ ret' = back.ret
              /\ err' = IF there.err # "none" THEN there.err ELSE back.err
              /\ op' = [name |-> "transform", source |-> source, target |-> target,
                        points |-> points]
    /\ before' = grid
    /\ out' = NoGrid
    /\ UNCHANGED grid

\* g.get_line_data(data, extract) for an array of distinct whole numbers, of
\* the shape of the grid or with one more entry on the last axis
GetLineData ==
    /\ UNCHANGED << call, fld, run, mpi, cub >>
    /\ Ready
    /\ \E prefix \in { "auto", "cut_", "project_", "slice_" },
          rest \in { "-1", "0", "1", "2", "3", "x", "y", "z", "q" }, more \in 0..1 :
          LET dim == Len(grid.shape)
              shape == [k \in 1..dim |-> IF k = dim THEN grid.shape[k] + more
                                        ELSE grid.shape[k]]
              RECURSIVE number(_, _)
              number(c, k) == IF k = 0 THEN 0
                              ELSE c[k] - 1 + (MaxCells + 1) * number(c, k - 1)
              data == [shape |-> shape,
                       at |-> [c \in { c \in [1..dim -> 1..MaxCells + 1] :
                                        \A k \in 1..dim : c[k] <= shape[k] } |->
                                  One * (1 + number(c, dim))]]
              extract == [prefix |-> prefix, rest |-> IF prefix = "auto" THEN "" ELSE rest]
              res == get_line_data(grid, data, extract)
          IN  /\ ret' = res.ret
              /\ err' = res.err
              /\ op' = [name |-> "get_line_data", data |-> data, extract |-> extract]
    /\ before' = grid
    /\ out' = NoGrid
    /\ mid' = << >>
    /\ UNCHANGED grid

\* the program goes on with the grid it holds, or with the grid just returned
Continue ==
    /\ UNCHANGED << call, fld, run, mpi, cub >>
    /\ IsGrid(grid)
    /\ ~Ready
    /\ \/ UNCHANGED grid
       \/ IsGrid(out) /\ op.name \in { "from_state", "to_cartesian" } /\ grid' = out
    /\ op' = [name |-> "next"]
    /\ before' = NoGrid
    /\ out' = NoGrid
    /\ ret' = << >>
    /\ mid' = << >>
    /\ err' = "none"

\* the branch pos_to_cart and pos_from_cart take once the points are accepted:
\* the hook applied to the array as it is, or np.apply_along_axis
conversion_path(dim, axis) ==
    IF axis = -1 \/ axis = dim - 1 THEN "direct" ELSE "apply_along_axis"

\* the array axis (counted from 1) whose entries the hook of a call takes as the
\* coordinates of a point: the hook itself reads the last axis of the array
\* it is given, np.apply_along_axis hands it the 1-d slices along `axis`
hook_axis(dim, points, axis) ==
    IF conversion_path(dim, axis) = "direct" THEN Len(atleast_1d(points))
    ELSE IF axis < 0 THEN Len(atleast_1d(points)) + axis + 1
    ELSE axis + 1

\* the record of a call of method m with point arrays a and b and result r
Outcome(m, dim, a, b, axis, r) ==
    [method |-> m, dim |-> dim, a |-> a, b |-> b, axis |-> axis,
     err |-> r.err, hooks |-> r.hooks,
     path |-> IF r.hooks = << >> THEN "none" ELSE conversion_path(dim, axis),
     along |-> IF r.hooks = << >> THEN 0 ELSE hook_axis(dim, a, axis)]

\* c.pos_to_cart(a, axis)
CallPosToCart ==
    /\ call = NoCall
    /\ \E dim \in Dims, a \in PointShapes, axis \in AxisArgs :
          call' = Outcome("pos_to_cart", dim, a, << >>, axis, pos_to_cart(dim, a, axis))
    /\ UNCHANGED << gridvars, fld, run, mpi, cub >>

\* c.pos_from_cart(a, axis)
CallPosFromCart ==
    /\ call = NoCall
    /\ \E dim \in Dims, a \in PointShapes, axis \in AxisArgs :
          call' = Outcome("pos_from_cart", dim, a, << >>, axis, pos_from_cart(dim, a, axis))
    /\ UNCHANGED << gridvars, fld, run, mpi, cub >>

\* c.distance(p1, p2, axis)
CallDistance ==
    /\ call = NoCall
    /\ \E dim \in Dims, a \in PointShapes, b \in PointShapes, axis \in AxisArgs :
          call' = Outcome("distance", dim, a, b, axis, distance(dim, a, b, axis))
    /\ UNCHANGED << gridvars, fld, run, mpi, cub >>

\* c.scale_factors(a)
CallScaleFactors ==
    /\ call = NoCall
    /\ \E dim \in Dims, a \in PointShapes :
          call' = Outcome("scale_factors", dim, a, << >>, -1, scale_factors(dim, a))
    /\ UNCHANGED << gridvars, fld, run, mpi, cub >>

\* c.metric(a)
CallMetric ==
    /\ call = NoCall
    /\ \E dim \in Dims, a \in PointShapes :
          call' = Outcome("metric", dim, a, << >>, -1, metric(dim, a))
    /\ UNCHANGED << gridvars, fld, run, mpi, cub >>

\* c.mapping_jacobian(a)
CallMappingJacobian ==
    /\ call = NoCall
    /\ \E dim \in Dims, a \in PointShapes :
          call' = Outcome("mapping_jacobian", dim, a, << >>, -1, mapping_jacobian(dim, a))
    /\ UNCHANGED << gridvars, fld, run, mpi, cub >>

\* c.volume_factor(a)
CallVolumeFactor ==
    /\ call = NoCall
    /\ \E dim \in Dims, a \in PointShapes :
          call' = Outcome("volume_factor", dim, a, << >>, -1, volume_factor(dim, a))
    /\ UNCHANGED << gridvars, fld, run, mpi, cub >>

\* c.cell_volume(a, b)
CallCellVolume ==
    /\ call = NoCall
    /\ \E dim \in Dims, a \in PointShapes, b \in PointShapes :
          call' = Outcome("cell_volume", dim, a, b, -1, cell_volume(dim, a, b))
    /\ UNCHANGED << gridvars, fld, run, mpi, cub >>

\* c.basis_rotation(a)
CallBasisRotation ==
    /\ call = NoCall
    /\ \E dim \in Dims, a \in PointShapes :
          call' = Outcome("basis_rotation", dim, a, << >>, -1, basis_rotation(dim, a))
    /\ UNCHANGED << gridvars, fld, run, mpi, cub >>

\* c.vec_to_cart(a, b)
CallVecToCart ==
    /\ call = NoCall
    /\ \E dim \in Dims, a \in PointShapes, b \in PointShapes :
          call' = Outcome("vec_to_cart", dim, a, b, -1, vec_to_cart(dim, a, b))
    /\ UNCHANGED << gridvars, fld, run, mpi, cub >>

\* c.metric(a) and c.scale_factors(a) at one point a of a concrete system c
CallMetricOfSystem ==
    /\ call = NoCall
    /\ \E dim \in Dims, own \in { "scale_factors", "metric" } :
       \E h \in [1..dim -> 1..MaxScale] :
          call' = [method |-> "metric", dim |-> dim, a |-> << dim >>, b |-> << >>,
                   axis |-> -1, err |-> "none", hooks |-> << own >>,
                   path |-> "direct", along |-> 1,
                   own |-> own,
                   diagonal |-> system_metric(own, h),
                   factors |-> system_scale_factors(own, h)]
    /\ UNCHANGED << gridvars, fld, run, mpi, cub >>

\* the program goes on to its next call
NextCall ==
    /\ call # NoCall
    /\ call' = NoCall
    /\ UNCHANGED << gridvars, fld, run, mpi, cub >>

NextCoords ==
    \/ CallPosToCart
    \/ CallPosFromCart
    \/ CallDistance
    \/ CallScaleFactors
    \/ CallMetric
    \/ CallMappingJacobian
    \/ CallVolumeFactor
    \/ CallCellVolume
    \/ CallBasisRotation
    \/ CallVecToCart
    \/ CallMetricOfSystem
    \/ NextCall

SpecCoords == Init /\ [][NextCoords]_vars

Next ==
    \/ NewCartesian
    \/ NewUnit
    \/ FromState
    \/ Slice
    \/ ToCartesian
    \/ SetAttribute
    \/ GetRandomPoint
    \/ IterMirrorPoints
    \/ GetLineData
    \/ Transform
    \/ Continue

Spec == Init /\ [][Next]_vars

\* ------------------------------------------------- corner points in 2-d
\* A padded array of a 2-d grid with nx * ny cells is a function of the indices
\* (i, j), i in 0..nx+1 and j in 0..ny+1; the cells with index 0 or n+1 are
\* ghost cells.  Values are kept in units of 1/2.
\* np.nan
NaN == -1

\* the array of test_corner_point_setter for a grid of nx * ny cells: the
\* corners are nan, the other cells are numbered in reading order and scaled,
\* and the ghost cells of a periodic axis are copies of the cells they mirror
PaddedArray(nx, ny, periodic, scale) ==
    LET number(i, j) ==
            IF i = 0 THEN j
            ELSE IF i = nx + 1 THEN ny + nx * (ny + 2) + j
            ELSE ny + (i - 1) * (ny + 2) + j + 1
        arr == [i \in 0..nx + 1 |-> [j \in 0..ny + 1 |->
                   IF i \in {0, nx + 1} /\ j \in {0, ny + 1} THEN NaN
                   ELSE 2 * scale * number(i, j)]]
        wrap(k, n) == IF k = 0 THEN n ELSE IF k = n + 1 THEN 1 ELSE k
        rows == [i \in 0..nx + 1 |-> IF periodic[1] THEN arr[wrap(i, nx)] ELSE arr[i]]
    IN  [i \in 0..nx + 1 |-> [j \in 0..ny + 1 |->
            IF periodic[2] THEN rows[i][wrap(j, ny)] ELSE rows[i][j]]]

set_corner_points_Interpolates(periodic, nx, ny, arr) ==
    [i \in 0..nx + 1 |-> [j \in 0..ny + 1 |->
        IF i \in {0, nx + 1} /\ j \in {0, ny + 1}
        THEN (arr[i][IF j = 0 THEN 1 ELSE ny] + arr[IF i = 0 THEN 1 ELSE nx][j]) \div 2
        ELSE arr[i][j]]]

\* the function make_corner_point_setter_2d(grid) returns, applied to arr: a
\* corner takes the value of the edge ghost cell that is its image along a
\* periodic axis, or else the mean of the two edge ghost cells next to it
set_corner_points(periodic, nx, ny, arr) ==
    [i \in 0..nx + 1 |-> [j \in 0..ny + 1 |->
        IF i \in {0, nx + 1} /\ j \in {0, ny + 1}
        THEN IF periodic[1] THEN arr[IF i = 0 THEN nx ELSE 1][j]
             ELSE IF periodic[2] THEN arr[i][IF j = 0 THEN ny ELSE 1]
             ELSE (arr[i][IF j = 0 THEN 1 ELSE ny] + arr[IF i = 0 THEN 1 ELSE nx][j]) \div 2
        ELSE arr[i][j]]]

\* setter = make_corner_point_setter_2d(UnitGrid([nx, ny], periodic)); setter(arr)
CornerPointSetter ==
    /\ fld.op = "none"
    /\ \E nx \in 1..MaxCells, ny \in 1..MaxCells, scale \in 1..MaxScale :
       \E periodic \in [1..2 -> BOOLEAN] :
          \E arr \in { PaddedArray(nx, ny, periodic, scale) } :
             fld' = [op |-> "set_corner_points", shape |-> << nx, ny >>,
                     periodic |-> periodic, arr |-> arr,
                     after |-> set_corner_points(periodic, nx, ny, arr)]
    /\ UNCHANGED << gridvars, call, run, mpi, cub >>

\* ------------------------------------------------------ right-hand sides
\* The data of a scalar field on a 1-d unit grid is a sequence of integers.
\* The operator `name` of the grid applied to the data h, with the boundary
\* condition of the PDE (periodic, or vanishing derivative): "laplace" gives
\* h[i-1] - 2 h[i] + h[i+1], "gradient_squared" gives ((h[i+1] - h[i-1]) / 2)^2
\* in units of 1/4
grid_operator(name, periodic, h) ==
    LET n == Len(h)
        lower(i) == IF i > 1 THEN h[i - 1] ELSE IF periodic THEN h[n] ELSE h[1]
        upper(i) == IF i < n THEN h[i + 1] ELSE IF periodic THEN h[1] ELSE h[n]
    IN  [i \in 1..n |->
            IF name = "laplace" THEN lower(i) - 2 * h[i] + upper(i)
            ELSE (upper(i) - lower(i)) * (upper(i) - lower(i))]

\* KPZInterfacePDE.evolution_rate(state) with nu = nu2 / 2, in units of 1/8
KPZ_evolution_rate(nu2, lmbda, periodic, h) ==
    LET result == [i \in Axes(h) |-> 4 * nu2 * grid_operator("laplace", periodic, h)[i]]
    IN  [i \in Axes(h) |->
            result[i] + 2 * lmbda * grid_operator("gradient_squared", periodic, h)[i]]

\* the function KPZInterfacePDE._make_pde_rhs_numba(state) returns, applied
\* to the data h, in units of 1/8
KPZ_pde_rhs(nu2, lmbda, periodic, h) ==
    LET nu_value == nu2
        lambda_value == lmbda
        laplace == grid_operator("laplace", periodic, h)
        gradient_squared == grid_operator("gradient_squared", periodic, h)
    IN  [i \in Axes(h) |-> 4 * nu_value * laplace[i] + 2 * lambda_value * gradient_squared[i]]

\* WavePDE.evolution_rate(state) for state = (u, v)
Wave_evolution_rate(speed, periodic, state) ==
    LET u == state[1]
        v == state[2]
    IN  << v, [i \in Axes(u) |-> (speed ^ 2) * grid_operator("laplace", periodic, u)[i]] >>

Wave_pde_rhs_Unscaled(speed, periodic, state_data) ==
    << state_data[2], grid_operator("laplace", periodic, state_data[1]) >>

\* the function WavePDE._make_pde_rhs_numba(state) returns, applied to the
\* data of (u, v)
Wave_pde_rhs(speed, periodic, state_data) ==
    LET speed2 == speed ^ 2
        laplace == grid_operator("laplace", periodic, state_data[1])
    IN  << state_data[2], [i \in Axes(laplace) |-> laplace[i] * speed2] >>

\* eq = KPZInterfacePDE(nu, lmbda); eq.evolution_rate(state) and
\* eq._make_pde_rhs_numba(state)(state.data, t)
KPZRate ==
    /\ fld.op = "none"
    /\ \E nu2 \in 0..MaxScale, lmbda \in 0..MaxScale, periodic \in BOOLEAN :
       \E h \in [1..MaxCells + 1 -> 0..MaxScale] :
          fld' = [op |-> "KPZInterfacePDE", nu2 |-> nu2, lmbda |-> lmbda,
                  periodic |-> periodic, state |-> h,
                  rate |-> KPZ_evolution_rate(nu2, lmbda, periodic, h),
                  compiled |-> KPZ_pde_rhs(nu2, lmbda, periodic, h)]
    /\ UNCHANGED << gridvars, call, run, mpi, cub >>

\* eq = WavePDE(speed); state = eq.get_initial_condition(u, v);
\* eq.evolution_rate(state) and eq._make_pde_rhs_numba(state)(state.data, t)
WaveRate ==
    /\ fld.op = "none"
    /\ \E speed \in 1..MaxScale, periodic \in BOOLEAN, given \in BOOLEAN :
       \E u \in [1..MaxCells + 1 -> 0..MaxScale] :
       \E v \in { [i \in Axes(u) |-> IF given THEN u[Len(u) + 1 - i] ELSE 0] } :
          fld' = [op |-> "WavePDE", speed |-> speed, periodic |-> periodic,
                  state |-> << u, v >>,
                  rate |-> Wave_evolution_rate(speed, periodic, << u, v >>),
                  compiled |-> Wave_pde_rhs(speed, periodic, << u, v >>)]
    /\ UNCHANGED << gridvars, call, run, mpi, cub >>

\* ------------------------------------------------------------ dot product
\* A field is its class, the number of its grid and its data; an object that
\* is no field (a number, an array) has no grid, written grid 0. Data is 0
\* until a result is written to it.
FieldClasses == { "ScalarField", "VectorField", "Tensor2Field" }

NoField == [kind |-> "ndarray", grid |-> 0, data |-> 0]

\* Tensor2Field.dot(other, out) of a tensor field on the grid numbered g;
\* out = NoCall stands for None
Tensor2Field_dot(g, other, result) ==
    IF other.grid = 0 THEN [raised |-> "AttributeError", out |-> result]
    ELSE IF other.grid # g THEN [raised |-> "ValueError", out |-> result]
    ELSE IF other.kind \notin { "VectorField", "Tensor2Field" }
    THEN [raised |-> "TypeError", out |-> result]
    ELSE IF result = NoCall
    THEN [raised |-> "none", out |-> [kind |-> other.kind, grid |-> g, data |-> 1]]
    ELSE IF result.kind # other.kind THEN [raised |-> "TypeError", out |-> result]
    ELSE IF result.grid # g THEN [raised |-> "ValueError", out |-> result]
    ELSE [raised |-> "none", out |-> [result EXCEPT !.data = 1]]

\* tensor.dot(other, out) for any object other and any field or None as out
TensorDot ==
    /\ fld.op = "none"
    /\ \E g \in 1..2 :
       \E other \in [kind : FieldClasses, grid : 1..2, data : {0}] \cup { NoField } :
       \E result \in [kind : FieldClasses, grid : 1..2, data : {0}] \cup { NoCall } :
          fld' = [op |-> "dot", grid |-> g, other |-> other, given |-> result,
                  done |-> Tensor2Field_dot(g, other, result)]
    /\ UNCHANGED << gridvars, call, run, mpi, cub >>

\* ---------------------------------------------------------- tensor fields
\* The data of a tensor field of rank 2 is, for every cell of the grid, a
\* dim x dim matrix of numbers. The entries are whole multiples of 2 * dim, so
\* that the halves and the division by dim below are exact.
RECURSIVE Sum(_, _)
Sum(f, n) == IF n = 0 THEN 0 ELSE f[n] + Sum(f, n - 1)

\* np.linalg.det of the matrix m: expansion along the first row, from column j
RECURSIVE linalg_det(_, _)
linalg_det(m, j) ==
    IF Len(m) = 1 THEN m[1][1]
    ELSE IF j > Len(m) THEN 0
    ELSE (IF j % 2 = 1 THEN 1 ELSE -1) * m[1][j]
            * linalg_det([r \in 1..Len(m) - 1 |-> [c \in 1..Len(m) - 1 |->
                              m[r + 1][IF c < j THEN c ELSE c + 1]]], 1)
         + linalg_det(m, j + 1)

\* the methods of to_scalar the model evaluates ("norm" and "auto" take a
\* square root and are left out)
ScalarMethods ==
    { "min", "max", "squared_sum", "norm_squared", "trace", "invariant1",
      "invariant2", "det", "determinant", "invariant3" }

scalar_of_Documented(A, scalar) ==
    LET dim == Len(A)
        trace == Sum([i \in 1..dim |-> A[i][i]], dim)
    IN  IF scalar = "invariant2"
        THEN (trace * trace
              - Sum([i \in 1..dim |-> Sum([j \in 1..dim |-> A[i][j] * A[j][i]], dim)], dim))
             \div 2
        ELSE IF scalar \in { "trace", "invariant1" } THEN trace
        ELSE linalg_det(A, 1)

\* the scalar that to_scalar computes of the matrix A of one cell
scalar_of(A, scalar) ==
    LET dim == Len(A)
        entries == { A[i][j] : i \in 1..dim, j \in 1..dim }
    IN  CASE scalar = "min" -> CHOOSE x \in entries : \A y \in entries : x <= y
          [] scalar = "max" -> CHOOSE x \in entries : \A y \in entries : x >= y
          [] scalar \in { "squared_sum", "norm_squared" } ->
                Sum([i \in 1..dim |-> Sum([j \in 1..dim |-> A[i][j] * A[i][j]], dim)], dim)
          [] scalar \in { "trace", "invariant1" } -> Sum([i \in 1..dim |-> A[i][i]], dim)
          [] scalar = "invariant2" ->
                Sum([i \in 1..dim |-> Sum([j \in 1..dim |->
                        IF j < i THEN A[i][i] * A[j][j] - A[i][j] * A[j][i] ELSE 0], dim)],
                    dim) \div 2
          [] OTHER -> IF dim = 1 THEN A[1][1] ELSE linalg_det(A, 1)

\* Tensor2Field.to_scalar(scalar)
Tensor2Field_to_scalar(data, scalar) ==
    IF scalar \notin ScalarMethods THEN [raised |-> "ValueError", data |-> << >>]
    ELSE [raised |-> "none", data |-> [p \in Axes(data) |-> scalar_of(data[p], scalar)]]

\* Tensor2Field.transpose()
Tensor2Field_transpose(data) ==
    [p \in Axes(data) |-> [i \in Axes(data[p]) |-> [j \in Axes(data[p]) |-> data[p][j][i]]]]

Tensor2Field_symmetrize_Keep(data, make_traceless) ==
    [p \in Axes(data) |-> [i \in Axes(data[p]) |-> [j \in Axes(data[p]) |->
        (data[p][i][j] + Tensor2Field_transpose(data)[p][i][j]) \div 2]]]

\* the data of the field Tensor2Field.symmetrize(make_traceless) returns
Tensor2Field_symmetrize(data, make_traceless) ==
    [p \in Axes(data) |-> [i \in Axes(data[p]) |-> [j \in Axes(data[p]) |->
        (data[p][i][j] + Tensor2Field_transpose(data)[p][i][j]) \div 2
        - (IF make_traceless /\ i = j
           THEN scalar_of(data[p], "trace") \div Len(data[p]) ELSE 0)]]]

\* tensor fields on a grid of two cells: any matrix of entries 0 and 2 * dim
\* in the first cell, and a matrix with negative entries in the second
TensorData(dim) ==
    { << A, [i \in 1..dim |-> [j \in 1..dim |-> 2 * dim * (i - 2 * j) + A[j][i]]] >> :
        A \in [1..dim -> [1..dim -> { 0, 2 * dim }]] }

\* field.to_scalar(scalar)
ToScalar ==
    /\ fld.op = "none"
    /\ \E dim \in 1..MaxDim, scalar \in ScalarMethods \cup { "unknown" } :
       \E data \in TensorData(dim) :
          fld' = [op |-> "to_scalar", dim |-> dim, data |-> data, scalar |-> scalar,
                  done |-> Tensor2Field_to_scalar(data, scalar)]
    /\ UNCHANGED << gridvars, call, run, mpi, cub >>

\* out = field.symmetrize(make_traceless, inplace), and the same call on out
Symmetrize ==
    /\ fld.op = "none"
    /\ \E dim \in 1..MaxDim, make_traceless \in BOOLEAN, inplace \in BOOLEAN :
       \E data \in TensorData(dim) :
          fld' = [op |-> "symmetrize", dim |-> dim, data |-> data,
                  make_traceless |-> make_traceless, inplace |-> inplace,
                  self |-> IF inplace THEN Tensor2Field_symmetrize(data, make_traceless)
                           ELSE data,
                  out |-> Tensor2Field_symmetrize(data, make_traceless),
                  again |-> Tensor2Field_symmetrize(
                               Tensor2Field_symmetrize(data, make_traceless), make_traceless)]
    /\ UNCHANGED << gridvars, call, run, mpi, cub >>

\* the program goes on to its next operation on field data
NextField ==
    /\ fld.op # "none"
    /\ fld' = [op |-> "none"]
    /\ UNCHANGED << gridvars, call, run, mpi, cub >>

\* ------------------------------------------------------- controller runs
\* Times are whole numbers of ticks. A run is the record of one call of
\* Controller.run: its status, its time range, the step, the number of
\* accepted and of rejected steps, and the storage its tracker writes to
\* (a sequence of entries, each the time of the stored state and the number
\* of the run that stored it).
MaxRuns == 2

MaxRejected == 4

\* the smallest and the largest step of the adaptive scheme
dt_min == 2

dt_max == 10

RangeArgs == { << 100 >>, << 101 >>, << 30 >>, << 100, 200 >> }

StepArgs == { 5, 10 }

\* interrupt intervals of the storage tracker; 0 stands for no tracker
IntervalArgs == { 0, 10, 15 }

\* Controller.t_range: a scalar end time T stands for (0, T)
Controller_t_range(t_range) ==
    IF Len(t_range) = 1 THEN << 0, t_range[1] >> ELSE t_range

next_interrupt_Same(next, interval, t) == next

\* the first interrupt time after `next` that lies beyond t
next_interrupt(next, interval, t) ==
    next + interval * ((t - next) \div interval + 1)

\* trackers.handle(state, t) of a run r: the storage tracker appends the
\* state when its interrupt time is reached, and moves to its next interrupt
handle_trackers(r, t) ==
    IF r.interval > 0 /\ t >= r.next
    THEN [r EXCEPT !.storage = Append(@, [t |-> t, run |-> r.id]),
                   !.next = next_interrupt(@, r.interval, t)]
    ELSE r

continue_Inclusive(r) == r.t <= r.t_end

\* the condition of the controller's loop
continue(r) == r.t < r.t_end

shrink_Keeps(dt) == dt

\* the step of the adaptive scheme after a rejected / an accepted step
shrink(dt) == dt \div 2

grow(dt, limit) == IF 2 * dt <= limit THEN Min2(2 * dt, dt_max) ELSE dt

\* controller.run(state, dt): validate the range, start at its lower end and
\* hand the initial state to the trackers
StartRun ==
    /\ run.status # "running"
    /\ run.id < MaxRuns
    /\ \E t_range \in RangeArgs, dt \in StepArgs, interval \in IntervalArgs,
          solver \in { "explicit", "explicit_mpi" }, backend \in { "numpy", "numba" },
          adaptive \in BOOLEAN, limit \in { 1, 5, 10 } :
          /\ adaptive => interval = 0 /\ t_range = << 30 >>
          /\ ~adaptive => limit = 10
          /\ run' = handle_trackers(
                       [status |-> "running", id |-> run.id + 1, storage |-> run.storage,
                        solver |-> solver, backend |-> backend, adaptive |-> adaptive,
                        t_start |-> Controller_t_range(t_range)[1],
                        t_end |-> Controller_t_range(t_range)[2],
                        dt |-> dt, dt_start |-> dt, limit |-> limit,
                        t |-> Controller_t_range(t_range)[1],
                        steps |-> 0, rejected |-> 0, interval |-> interval,
                        next |-> Controller_t_range(t_range)[1],
                        kept |-> Len(run.storage), reason |-> "none"],
                       Controller_t_range(t_range)[1])
    /\ UNCHANGED << gridvars, call, fld, mpi, cub >>

\* one pass of the loop: the adaptive scheme rejects a step whose error is
\* above the tolerance (dt above the limit of the problem), shrinks dt and
\* gives up when dt falls below dt_min; otherwise the step is taken, t
\* advances and the trackers are handled
Step ==
    /\ run.status = "running"
    /\ continue(run)
    /\ IF run.adaptive /\ run.dt > run.limit
       THEN /\ run.rejected < MaxRejected
            /\ run' = [run EXCEPT !.rejected = @ + 1,
                                  !.dt = shrink(@),
                                  !.status = IF shrink(run.dt) < dt_min THEN "failed" ELSE @,
                                  !.reason = IF shrink(run.dt) < dt_min
                                             THEN "dt underflow" ELSE @]
       ELSE run' = handle_trackers(
                     [run EXCEPT !.t = @ + run.dt,
                                 !.steps = @ + 1,
                                 !.dt = IF run.adaptive THEN grow(@, run.limit) ELSE @],
                     run.t + run.dt)
    /\ UNCHANGED << gridvars, call, fld, mpi, cub >>

\* the evolution rate is not finite: the run is aborted
Abort ==
    /\ run.status = "running"
    /\ continue(run)
    /\ run' = [run EXCEPT !.status = "failed", !.reason = "non-finite rate"]
    /\ UNCHANGED << gridvars, call, fld, mpi, cub >>

\* the end of the range is reached: the run returns
Finish ==
    /\ run.status = "running"
    /\ ~continue(run)
    /\ run' = [run EXCEPT !.status = "completed", !.reason = "Reached final time"]
    /\ UNCHANGED << gridvars, call, fld, mpi, cub >>

\* storage.clear() between two runs
ClearStorage ==
    /\ run.status \in { "completed", "failed" }
    /\ run.storage # << >>
    /\ run' = [run EXCEPT !.storage = << >>]
    /\ UNCHANGED << gridvars, call, fld, mpi, cub >>

\* ------------------------------------------------- multi-process runs
\* A fixed-step explicit run of the diffusion equation on a 1-d unit grid,
\* decomposed over the processes 0 .. size - 1; process 0 is the main process.
\* Each process owns a contiguous slab of the cells and holds a halo: the
\* values of the two cells next to its slab, as received in the last exchange.
MaxProcs == 2

None == << >>

\* one explicit step of the whole field: u + dt * laplace(u)
explicit_step(u, dt, periodic) ==
    [i \in Axes(u) |-> u[i] + dt * grid_operator("laplace", periodic, u)[i]]

\* the field the single-process explicit solver returns after `steps` steps
RECURSIVE explicit_solve(_, _, _, _)
explicit_solve(u, dt, steps, periodic) ==
    IF steps = 0 THEN u
    ELSE explicit_solve(explicit_step(u, dt, periodic), dt, steps - 1, periodic)

\* the first and the last cell of the slab of process `rank` when n cells
\* are split over `size` processes
slab(n, size, rank) ==
    LET base == n \div size
        extra == n % size
        first == rank * base + Min2(rank, extra) + 1
    IN  << first, first + base + (IF rank < extra THEN 1 ELSE 0) - 1 >>

\* the halo of a slab: the neighbouring processes' edge cells, or the
\* boundary condition at an edge of the domain
exchange_halo(data, cells, periodic) ==
    LET n == Len(data)
    IN  << IF cells[1] > 1 THEN data[cells[1] - 1]
           ELSE IF periodic THEN data[n] ELSE data[1],
           IF cells[2] < n THEN data[cells[2] + 1]
           ELSE IF periodic THEN data[1] ELSE data[n] >>

\* one explicit step of a process on the cells of its slab, with its halo
local_step(data, cells, halo, dt) ==
    [i \in Axes(data) |->
        IF i \in cells[1]..cells[2]
        THEN data[i] + dt * ((IF i = cells[1] THEN halo[1] ELSE data[i - 1])
                             - 2 * data[i]
                             + (IF i = cells[2] THEN halo[2] ELSE data[i + 1]))
        ELSE data[i]]

mpi_result_Everywhere(rank, data) == data

\* what a process returns from the run: the main process the combined field
mpi_result(rank, data) == IF rank = 0 THEN data ELSE None

\* eq.solve(state, t_range, dt, solver="explicit_mpi") is entered by all
\* processes; the initial state is split into the slabs
StartMPI ==
    /\ mpi.phase = "none"
    /\ \E size \in 1..MaxProcs, steps \in 1..2, dt \in 1..2, periodic \in BOOLEAN :
       \E state \in [1..MaxCells + 2 -> 0..1] :
          mpi' = [phase |-> "running", size |-> size, steps |-> steps, dt |-> dt,
                  periodic |-> periodic, state |-> state, data |-> state,
                  pos |-> [r \in 0..size - 1 |-> "exchange"],
                  halo |-> [r \in 0..size - 1 |-> << 0, 0 >>],
                  done |-> [r \in 0..size - 1 |-> 0],
                  ret |-> [r \in 0..size - 1 |-> None]]
    /\ UNCHANGED << gridvars, call, fld, run, cub >>

\* the blocking exchange of the halos, once per step: it returns in every
\* process when all processes have entered it
Exchange ==
    /\ mpi.phase = "running"
    /\ \A r \in DOMAIN mpi.pos : mpi.pos[r] = "exchange"
    /\ mpi' = [mpi EXCEPT
                 !.halo = [r \in DOMAIN mpi.pos |->
                             exchange_halo(mpi.data, slab(Len(mpi.data), mpi.size, r),
                                           mpi.periodic)],
                 !.pos = [r \in DOMAIN mpi.pos |-> "compute"]]
    /\ UNCHANGED << gridvars, call, fld, run, cub >>

\* a process takes its step on its slab
LocalStep ==
    /\ mpi.phase = "running"
    /\ \E r \in DOMAIN mpi.pos :
          /\ mpi.pos[r] = "compute"
          /\ mpi' = [mpi EXCEPT
                       !.data = local_step(@, slab(Len(mpi.data), mpi.size, r),
                                           mpi.halo[r], mpi.dt),
                       !.done[r] = @ + 1,
                       !.pos[r] = IF mpi.done[r] + 1 = mpi.steps THEN "gather"
                                  ELSE "exchange"]
    /\ UNCHANGED << gridvars, call, fld, run, cub >>

\* the final state is collected in the main process and every process returns
Gather ==
    /\ mpi.phase = "running"
    /\ \A r \in DOMAIN mpi.pos : mpi.pos[r] = "gather"
    /\ mpi' = [mpi EXCEPT
                 !.phase = "returned",
                 !.ret = [r \in DOMAIN mpi.pos |-> mpi_result(r, mpi.data)],
                 !.pos = [r \in DOMAIN mpi.pos |-> "returned"]]
    /\ UNCHANGED << gridvars, call, fld, run, cub >>

\* the program goes on to its next multi-process run
NextSolve ==
    /\ mpi.phase = "returned"
    /\ mpi' = [phase |-> "none"]
    /\ UNCHANGED << gridvars, call, fld, run, cub >>

\* --------------------------------------------------------- cuboid objects
\* A cuboid object is its pos and size arrays, its mutable flag and the
\* writeable flags of the two arrays. NoCuboid stands for no object.
MaxExtent == 4

NoCuboid == [mutable |-> FALSE, pos |-> << >>, size |-> << >>,
             pos_w |-> FALSE, size_w |-> FALSE]

\* no entry of the cuboid is beyond the extent the model follows
Bounded(c) ==
    \A x \in { c.pos[k] : k \in Axes(c.pos) } \cup { c.size[k] : k \in Axes(c.size) } :
        Abs(x) <= MaxExtent * One

\* Cuboid(pos, size, mutable) and the classmethods from_points(a, b),
\* from_bounds(zip(a, b)), from_centerpoint(a, b); all but the first are
\* called with a and b of the same dimension
Cuboid_construct(kind, a, b, mutable) ==
    LET made == CASE kind = "from_points" ->
                       Cuboid_init(a, [k \in Axes(a) |-> FSub(b[k], a[k])], mutable)
                  [] kind = "from_bounds" ->
                       Cuboid_from_bounds([k \in Axes(a) |-> << a[k], b[k] >>], mutable)
                  [] kind = "from_centerpoint" ->
                       Cuboid_init([k \in Axes(a) |-> FSub(a[k], FDiv(b[k], 2))], b, mutable)
                  [] OTHER -> Cuboid_init(a, [k \in Axes(a) |-> b[k]], mutable)
    IN  IF Len(a) # Len(b) THEN [raised |-> "ValueError", c |-> NoCuboid]
        ELSE [raised |-> "none",
              c |-> [pos |-> made.pos, size |-> made.size, mutable |-> mutable,
                     pos_w |-> mutable, size_w |-> mutable]]

\* c.size = value: the new array is stored, then its dimension is checked,
\* then negative entries are flipped by an assignment to pos
Cuboid_assign_size(c, value) ==
    IF Len(value) # Len(c.pos) \/ ~c.pos_w
    THEN [raised |-> "ValueError", c |-> [c EXCEPT !.size = value, !.size_w = TRUE]]
    ELSE [raised |-> "none",
          c |-> [c EXCEPT !.pos = Cuboid_size_setter(c.pos, value, c.mutable).pos,
                          !.size = Cuboid_size_setter(c.pos, value, c.mutable).size,
                          !.size_w = c.mutable]]

\* what an operation on the cuboid leaves in the state
Operated(name, arg, r, returned) ==
    [op |-> name, arg |-> arg, raised |-> r.raised, c |-> r.c, before |-> cub.c,
     out |-> returned]

\* a cuboid is constructed from two vectors with equal entries
NewCuboid ==
    /\ cub.op = "none"
    /\ \E kind \in { "Cuboid", "from_points", "from_bounds", "from_centerpoint" },
          dim \in 1..MaxDim, other \in 1..MaxDim, mutable \in BOOLEAN,
          x \in { 0, One }, y \in { -One, One, 2 * One } :
          /\ kind # "Cuboid" => other = dim
          /\ cub' = [op |-> kind, arg |-> << [k \in 1..dim |-> x], [k \in 1..other |-> y] >>,
                     raised |-> Cuboid_construct(kind, [k \in 1..dim |-> x],
                                                 [k \in 1..other |-> y], mutable).raised,
                     c |-> Cuboid_construct(kind, [k \in 1..dim |-> x],
                                            [k \in 1..other |-> y], mutable).c,
                     before |-> NoCuboid, out |-> NoCuboid]
    /\ UNCHANGED << gridvars, call, fld, run, mpi >>

\* c.size = value
AssignSize ==
    /\ cub.op # "none" /\ cub.c # NoCuboid
    /\ \E dim \in 1..MaxDim, v \in { -One, One, 2 * One } :
          /\ cub' = Operated("size", [k \in 1..dim |-> v],
                             Cuboid_assign_size(cub.c, [k \in 1..dim |-> v]), NoCuboid)
          /\ Bounded(cub'.c)
    /\ UNCHANGED << gridvars, call, fld, run, mpi >>

\* c.centroid = center, with center of the dimension of pos: an assignment
\* to pos[:] of center - size / 2
AssignCentroid ==
    /\ cub.op # "none" /\ cub.c # NoCuboid
    /\ \E v \in { 0, One } :
          /\ cub' = Operated("centroid", v,
                       IF ~cub.c.pos_w \/ Len(cub.c.size) \notin { 1, Len(cub.c.pos) }
                       THEN [raised |-> "ValueError", c |-> cub.c]
                       ELSE [raised |-> "none",
                             c |-> [cub.c EXCEPT !.pos = [k \in Axes(cub.c.pos) |->
                                     FSub(v, FDiv(cub.c.size[IF Len(cub.c.size) = 1
                                                             THEN 1 ELSE k], 2))]]],
                       NoCuboid)
          /\ Bounded(cub'.c)
    /\ UNCHANGED << gridvars, call, fld, run, mpi >>

\* c.buffer(amount, inplace) for a number amount: in place, pos -= amount,
\* then size += 2 * amount in the array and through the setter of size;
\* otherwise a new cuboid is returned
Buffer ==
    /\ cub.op # "none" /\ cub.c # NoCuboid
    /\ \E amount \in { -One, One }, inplace \in BOOLEAN :
          /\ cub' =
                IF ~inplace
                THEN Operated("buffer", amount,
                              [raised |-> IF Len(cub.c.pos) = Len(cub.c.size) THEN "none"
                                          ELSE "ValueError",
                               c |-> cub.c],
                              IF Len(cub.c.pos) = Len(cub.c.size)
                              THEN Cuboid_buffer(cub.c, amount) ELSE NoCuboid)
                ELSE IF ~cub.c.pos_w
                THEN Operated("buffer_inplace", amount,
                              [raised |-> "ValueError", c |-> cub.c], NoCuboid)
                ELSE IF ~cub.c.size_w
                THEN Operated("buffer_inplace", amount,
                              [raised |-> "ValueError",
                               c |-> [cub.c EXCEPT !.pos = [k \in Axes(cub.c.pos) |->
                                                              FSub(cub.c.pos[k], amount)]]],
                              NoCuboid)
                ELSE Operated("buffer_inplace", amount,
                              Cuboid_assign_size(
                                  [cub.c EXCEPT !.pos = [k \in Axes(cub.c.pos) |->
                                                           FSub(cub.c.pos[k], amount)]],
                                  [k \in Axes(cub.c.size) |-> FAdd(cub.c.size[k], 2 * amount)]),
                              NoCuboid)
          /\ Bounded(cub'.c)
    /\ UNCHANGED << gridvars, call, fld, run, mpi >>

\* c.pos[:] = v, c.size[:] = v
WriteArray ==
    /\ cub.op # "none" /\ cub.c # NoCuboid
    /\ \E array \in { "pos", "size" }, v \in { -One, One } :
          cub' = Operated("write", << array, v >>,
                   IF array = "pos" /\ cub.c.pos_w
                   THEN [raised |-> "none",
                         c |-> [cub.c EXCEPT !.pos = [k \in Axes(cub.c.pos) |-> v]]]
                   ELSE IF array = "size" /\ cub.c.size_w
                   THEN [raised |-> "none",
                         c |-> [cub.c EXCEPT !.size = [k \in Axes(cub.c.size) |-> v]]]
                   ELSE [raised |-> "ValueError", c |-> cub.c],
                   NoCuboid)
    /\ UNCHANGED << gridvars, call, fld, run, mpi >>

\* c.mutable = value
SetMutable ==
    /\ cub.op # "none" /\ cub.c # NoCuboid
    /\ \E value \in BOOLEAN :
          cub' = Operated("mutable", value,
                          [raised |-> "none",
                           c |-> [cub.c EXCEPT !.mutable = value, !.pos_w = value,
                                               !.size_w = value]],
                          NoCuboid)
    /\ UNCHANGED << gridvars, call, fld, run, mpi >>

\* the program drops the cuboid
DropCuboid ==
    /\ cub.op # "none"
    /\ cub' = [op |-> "none"]
    /\ UNCHANGED << gridvars, call, fld, run, mpi >>

\* ------------------------------------------------ the specifications
NextFields ==
    \/ CornerPointSetter
    \/ KPZRate
    \/ WaveRate
    \/ TensorDot
    \/ ToScalar
    \/ Symmetrize
    \/ NextField

SpecFields == Init /\ [][NextFields]_vars

NextRun ==
    \/ StartRun
    \/ Step
    \/ Abort
    \/ Finish
    \/ ClearStorage

\* the loop of a running controller is never suspended
SpecRun == Init /\ [][NextRun]_vars /\ WF_vars(Step \/ Finish)

NextMPI ==
    \/ StartMPI
    \/ Exchange
    \/ LocalStep
    \/ Gather
    \/ NextSolve

SpecMPI == Init /\ [][NextMPI]_vars

NextCuboid ==
    \/ NewCuboid
    \/ AssignSize
    \/ AssignCentroid
    \/ Buffer
    \/ WriteArray
    \/ SetMutable
    \/ DropCuboid

SpecCuboid == Init /\ [][NextCuboid]_vars

\* ------------------------------------------------------------ the claims
\* the bounds of axis k as the caller of CartesianGrid gave them
Given(b, k) == IF Len(b.rows[1]) = 1 THEN << 0, squeeze(b)[k] >> ELSE b.rows[k]

Constructed == op.name = "CartesianGrid" /\ err = "none"

\* C1 as stated: the step of every axis is (max - min) / n and the centre of
\* cell i is min + (i + 0.5) * step, with min and max the bounds as the caller
\* gave them.
C1_AsGiven ==
    Constructed =>
        \A k \in Axes(grid.shape) :
            LET lo == Given(op.bounds, k)[1]
                hi == Given(op.bounds, k)[2]
                d  == discretize_interval(lo, hi, grid.shape[k])
            IN  grid.discretization[k] = d.dx /\ grid.axes_coords[k] = d.coords

\* C1 amended: the step of every axis is (max - min) / n and the centre of cell
\* i is min + (i + 0.5) * step, each operation rounded as floating-point
\* arithmetic rounds it, where (min, max) are the axis bounds the grid stores:
\* min <= max, min is the given lower bound when the bounds are given in
\* order, and (min, max) are the smaller and the larger of the given bounds
\* whenever their difference is exactly representable.
C1_StoredBounds ==
    Constructed =>
        \A k \in Axes(grid.shape) :
            LET lo == Given(op.bounds, k)[1]
                hi == Given(op.bounds, k)[2]
                ab == grid.axes_bounds[k]
                n  == grid.shape[k]
                dx == grid.discretization[k]
            IN  /\ ab[1] <= ab[2]
                /\ lo <= hi => ab[1] = lo
                /\ FSub(hi, lo) = hi - lo => ab = << Min2(lo, hi), Max2(lo, hi) >>
                /\ dx = FDiv(FSub(ab[2], ab[1]), n)
                /\ Len(grid.axes_coords[k]) = n
                /\ \A i \in 1..n :
                      grid.axes_coords[k][i] = FAdd(FMul(dx, 2 * i - 1, 2), ab[1])

\* a grid was built from bounds given in reverse order, with several cells
C1_Witness ==
    /\ Constructed
    /\ \E k \in Axes(grid.shape) :
          Given(op.bounds, k)[1] > Given(op.bounds, k)[2] /\ grid.shape[k] >= 2

\* the number of axes that interpretable bounds describe
Described(b) == IF b.ndim = 1 \/ Len(b.rows[1]) = 1 THEN Len(squeeze(b)) ELSE Len(b.rows)

\* the bounds argument describes a number of axes
Interpretable(b) ==
    /\ ~(b.ndim = 1 /\ Len(b.rows) = 2)
    /\ b.ndim = 1 \/ Len(b.rows[1]) = 1 \/ (b.ndim = 2 /\ Len(b.rows[1]) = 2)

GridInvariant(g) ==
    IsGrid(g) =>
        /\ Len(g.shape) = Cuboid_dim(g.cuboid)
        /\ Len(g.periodic) = Cuboid_dim(g.cuboid)
        /\ Len(g.discretization) = Cuboid_dim(g.cuboid)
        /\ \A k \in Axes(g.shape) : g.discretization[k] > 0

C3_PositiveStep == GridInvariant(grid) /\ GridInvariant(out)

\* C4: from_state(g.state) yields a grid of the same class with the shape,
\* periodicity, axis bounds, steps and cell centres of g, however often the
\* round trip is repeated, and leaves g as it was.
C4_StateRoundTrip ==
    op.name = "from_state" =>
        /\ err = "none"
        /\ grid = before
        /\ out.cls = grid.cls
        /\ out.shape = grid.shape
        /\ out.periodic = grid.periodic
        /\ out.axes_bounds = grid.axes_bounds
        /\ out.discretization = grid.discretization
        /\ out.axes_coords = grid.axes_coords

\* the state of a CartesianGrid whose stored size differs from the difference
\* of its stored bounds made the round trip
C4_Witness ==
    /\ op.name = "from_state"
    /\ grid.cls = "CartesianGrid"
    /\ IsGrid(out)
    /\ \E k \in Axes(grid.shape) :
          grid.cuboid.size[k] # grid.axes_bounds[k][2] - grid.axes_bounds[k][1]

C6_TransformRoundTrip ==
    op.name = "transform" =>
        /\ err = "none"
        /\ Len(mid) = Len(op.points)
        /\ Len(ret) = Len(op.points)
        /\ \A i \in Axes(op.points) : PointEq(ret[i], op.points[i])

\* C7: slice(indices) returns a grid of the same class with one axis per
\* index, each with the bounds, cell count, periodicity and name of the axis
\* it names, and leaves the grid it is called on as it was.
C7_Slice ==
    op.name = "slice" =>
        /\ err = "none"
        /\ grid = before
        /\ out.cls = before.cls
        /\ Len(out.shape) = Len(op.indices)
        /\ Len(out.axes_bounds) = Len(op.indices)
        /\ \A j \in Axes(op.indices) :
              /\ out.axes_bounds[j] = before.axes_bounds[op.indices[j]]
              /\ out.shape[j] = before.shape[op.indices[j]]
              /\ out.periodic[j] = before.periodic[op.indices[j]]
              /\ out.axes[j] = before.axes[op.indices[j]]

\* the second axis alone was sliced out of a CartesianGrid
C7_Witness ==
    /\ op.name = "slice"
    /\ before.cls = "CartesianGrid"
    /\ op.indices = << 2 >>
    /\ IsGrid(out)

\* C8 as stated: get_random_point(boundary_distance=b) raises RuntimeError
\* exactly when some axis has size <= 2 * b, and otherwise returns a point
\* within the bounds of every axis and at least b away from both of them.
C8_RandomPoint ==
    (op.name = "get_random_point" /\ op.coords = "cartesian") =>
        LET b == op.boundary_distance
            too_close == \E k \in Axes(grid.shape) : grid.cuboid.size[k] <= 2 * b
        IN  /\ err = "RuntimeError" <=> too_close
            /\ err = "none" =>
                  \A k \in Axes(grid.shape) :
                      LET x == ret[1][k][1]
                          lo == grid.axes_bounds[k][1]
                          hi == grid.axes_bounds[k][2]
                      IN  lo <= x /\ x <= hi /\ x - lo >= b /\ hi - x >= b

\* 3^k
RECURSIVE Pow3(_)
Pow3(k) == IF k = 0 THEN 1 ELSE 3 * Pow3(k - 1)

\* C9 as stated: iter_mirror_points yields 3^k - 1 pairwise distinct images,
\* none equal to the point, shifted by -L, 0 or +L on each of the k mirrored
\* axes and unshifted on the others, plus the point once iff with_self.
C9_MirrorPoints ==
    op.name = "iter_mirror_points" =>
        LET mirrored == { k \in Axes(grid.shape) : ~op.only_periodic \/ grid.periodic[k] }
            self == IF op.with_self THEN 1 ELSE 0
        IN  /\ Len(ret) = Pow3(Cardinality(mirrored)) - 1 + self
            /\ \A i, j \in Axes(ret) : i # j => ret[i] # ret[j]
            /\ (\E i \in Axes(ret) : ret[i] = op.point) <=> op.with_self
            /\ \A i \in Axes(ret) : \A k \in Axes(grid.shape) :
                  LET L == grid.cuboid.size[k]
                      x == op.point[k][1]
                  IN  IF k \in mirrored
                      THEN ret[i][k][1] \in { Round(x - L, 1), x, Round(x + L, 1) }
                      ELSE ret[i][k][1] = x

\* the point arrays of the last call: the second array of vec_to_cart holds
\* vector components, not points
PointArrays ==
    IF call.method \in { "distance", "cell_volume" } THEN << call.a, call.b >>
    ELSE << call.a >>

\* the call was given point arrays whose coordinate axis exists
WellFormedCall ==
    /\ call.method # "none"
    /\ \A i \in Axes(PointArrays) : AxisInRange(PointArrays[i], call.axis)

WrongDim(points) == Extent(atleast_1d(points), call.axis) # call.dim

\* C10 as stated: every method raises DimensionError before any subclass
\* hook has run whenever the coordinate dimension of one of its point arrays
\* differs from the dimension of the system.
C10_CheckBeforeHooks ==
    (WellFormedCall /\ \E i \in Axes(PointArrays) : WrongDim(PointArrays[i]))
    => call.err = "DimensionError" /\ call.hooks = << >>

\* C10 amended: every method raises DimensionError whenever the coordinate
\* dimension of one of its point arrays differs from the dimension of the
\* system; no subclass hook has run by then, except that distance has run
\* _pos_to_cart on its first array when only its second array is wrong.
C10_CheckedOnEntryButDistance ==
    (WellFormedCall /\ \E i \in Axes(PointArrays) : WrongDim(PointArrays[i]))
    => /\ call.err = "DimensionError"
       /\ IF call.method = "distance" /\ ~WrongDim(call.a)
          THEN call.hooks = << "_pos_to_cart" >>
          ELSE call.hooks = << >>

\* distance rejected its second array after it had converted its first
C10_Witness ==
    /\ call.method = "distance"
    /\ ~WrongDim(call.a)
    /\ WrongDim(call.b)
    /\ call.err = "DimensionError"
    /\ call.hooks = << "_pos_to_cart" >>

\* the array axis (counted from 1) that the argument axis of the call names
NamedAxis ==
    IF call.axis < 0 THEN Len(atleast_1d(call.a)) + call.axis + 1 ELSE call.axis + 1

\* C11 as stated: pos_to_cart and pos_from_cart convert the coordinates stored
\* along the array axis that `axis` names, and apply the last-axis conversion
\* to the array as it is only when that axis is the last axis of the array.
C11_ConvertsAlongAxis ==
    (call.method \in { "pos_to_cart", "pos_from_cart" } /\ call.err = "none")
    => /\ call.along = NamedAxis
       /\ call.path = "direct" => NamedAxis = Len(atleast_1d(call.a))

\* C12 as stated: for a system that supplies only its own scale factors or
\* only its own diagonal metric, the k-th diagonal entry of metric(points)
\* is the square of the k-th value of scale_factors(points).
C12_MetricIsSquaredScale ==
    (call.method = "metric" /\ "own" \in DOMAIN call) =>
        /\ Len(call.diagonal) = call.dim
        /\ Len(call.factors) = call.dim
        /\ \A k \in 1..call.dim : call.diagonal[k] = call.factors[k] * call.factors[k]

Running == run.status = "running"

Ended == run.status \in { "completed", "failed" }

\* C15: every run that is running ends as completed or failed; an ended run
\* never changes its status again; and a rejected step that takes dt below
\* the minimum fails the run instead of being retried.
C15_Terminates ==
    /\ Running ~> Ended
    /\ [][Ended /\ run'.id = run.id => run'.status = run.status]_vars
    /\ [][Running /\ run'.id = run.id /\ run'.dt < dt_min => run'.status = "failed"]_vars

\* an adaptive run shrank its step twice and then gave up
C15_Witness ==
    /\ run.status = "failed"
    /\ run.reason = "dt underflow"
    /\ run.rejected >= 2

\* the entries a run appended to the storage, and whether they are still there
OwnEntries(r) == SubSeq(r.storage, r.kept + 1, Len(r.storage))

Stored(r) == r.status = "completed" /\ r.interval > 0 /\ Len(r.storage) > r.kept

\* the entries of run r are those of the times t0, t0 + D, ..., t0 + n D
AtInterrupts(r, n) ==
    /\ Len(OwnEntries(r)) = n + 1
    /\ \A k \in 1..Len(OwnEntries(r)) :
          OwnEntries(r)[k] = [t |-> r.t_start + (k - 1) * r.interval, run |-> r.id]
    /\ \A k \in 1..r.kept : r.storage[k].run < r.id

C17_MainReturns ==
    mpi.phase = "returned" =>
        /\ mpi.ret[0] = explicit_solve(mpi.state, mpi.dt, mpi.steps, mpi.periodic)
        /\ mpi.ret[0] # None
        /\ \A r \in DOMAIN mpi.ret : r # 0 => mpi.ret[r] = None

\* two processes took two steps each and the field changed
C17_Witness ==
    /\ mpi.phase = "returned"
    /\ mpi.size = 2 /\ mpi.steps = 2
    /\ mpi.ret[0] # mpi.state
    /\ mpi.ret[1] = None

\* the second difference of the data h at cell i, with the ghost cells lo and hi
Lap(h, i, lo, hi) ==
    (IF i = 1 THEN lo ELSE h[i - 1]) - 2 * h[i] + (IF i = Len(h) THEN hi ELSE h[i + 1])

\* the ghost cells below and above the data h
Ghosts(h, periodic) == IF periodic THEN << h[Len(h)], h[1] >> ELSE << h[1], h[Len(h)] >>

\* C18: for WavePDE and KPZInterfacePDE the compiled right-hand side returns
\* the rate evolution_rate returns for the same state; for the wave equation
\* that rate is (v, speed^2 * laplace(u)).
C18_CompiledAgrees ==
    /\ fld.op \in { "WavePDE", "KPZInterfacePDE" } => fld.compiled = fld.rate
    /\ fld.op = "WavePDE" =>
          LET u == fld.state[1]
              g == Ghosts(fld.state[1], fld.periodic)
          IN  /\ fld.compiled[1] = fld.state[2]
              /\ Len(fld.compiled[2]) = Len(u)
              /\ \A i \in Axes(u) :
                    fld.compiled[2][i] = fld.speed * fld.speed * Lap(u, i, g[1], g[2])

\* a wave with speed 2 and a curved u was evaluated
C18_Witness ==
    /\ fld.op = "WavePDE"
    /\ fld.speed = 2
    /\ \E i \in Axes(fld.rate[2]) : fld.rate[2][i] # 0

\* C19 as stated: Tensor2Field.dot(other, out) raises a grid-compatibility
\* error when the grid of other differs from the grid of the field, TypeError
\* whenever other is no VectorField or Tensor2Field (and its grid does not
\* differ), TypeError or a grid-compatibility error when out is not of the
\* class of other or lies on another grid, and a failed call leaves out as it
\* was.
C19_DotErrors ==
    fld.op = "dot" =>
        LET other == fld.other
            wrong == other.kind \notin { "VectorField", "Tensor2Field" }
        IN  /\ other.grid \notin { 0, fld.grid } => fld.done.raised = "ValueError"
            /\ wrong /\ other.grid \in { 0, fld.grid } => fld.done.raised = "TypeError"
            /\ ~wrong /\ other.grid = fld.grid /\ fld.given # NoCall =>
                  /\ fld.given.kind # other.kind \/ fld.given.grid # fld.grid
                        => fld.done.raised \in { "TypeError", "ValueError" }
            /\ fld.done.raised # "none" => fld.done.out = fld.given

\* C20 as stated: KPZInterfacePDE.evolution_rate returns nu * laplace(h) +
\* (lambda / 2) * gradient_squared(h); in units of 1/8, with nu = nu2 / 2 and
\* d the difference of the two neighbours of a cell, 4 nu2 laplace + lambda d^2.
C20_DocumentedRate ==
    fld.op = "KPZInterfacePDE" =>
        LET h == fld.state
            g == Ghosts(fld.state, fld.periodic)
        IN  \A i \in Axes(h) :
                LET d == (IF i = Len(h) THEN g[2] ELSE h[i + 1])
                         - (IF i = 1 THEN g[1] ELSE h[i - 1])
                IN  fld.rate[i] = 4 * fld.nu2 * Lap(h, i, g[1], g[2]) + fld.lmbda * d * d

\* the trace of a matrix and of the square of a matrix
Tr(A) == Sum([i \in Axes(A) |-> A[i][i]], Len(A))

TrSquare(A) == Sum([i \in Axes(A) |-> Sum([j \in Axes(A) |-> A[i][j] * A[j][i]], Len(A))], Len(A))

Scalar(name) == fld.op = "to_scalar" /\ fld.scalar = name

\* C21 as stated: to_scalar('invariant2') returns in every cell
\* 1/2 * [ (tr A)^2 - tr(A^2) ] of the matrix A of that cell.
C21_SecondInvariant ==
    Scalar("invariant2") =>
        /\ fld.done.raised = "none"
        /\ \A p \in Axes(fld.data) :
              2 * fld.done.data[p] = Tr(fld.data[p]) * Tr(fld.data[p]) - TrSquare(fld.data[p])

\* C22: on a 1-d grid invariant1 and invariant3 are the single entry and
\* invariant2 is 0; on a 2-d grid twice invariant2 is the determinant, which
\* invariant3 returns; 'trace' returns what 'invariant1' returns and 'det'
\* and 'determinant' what 'invariant3' returns.
C22_InvariantIdentities ==
    fld.op = "to_scalar" /\ fld.scalar \in ScalarMethods =>
        /\ fld.done.raised = "none"
        /\ \A p \in Axes(fld.data) :
              LET A == fld.data[p]
                  x == fld.done.data[p]
              IN  /\ fld.scalar \in { "trace", "invariant1" } => x = Tr(A)
                  /\ fld.dim = 1 =>
                        /\ fld.scalar \in { "invariant1", "invariant3", "det", "determinant" }
                              => x = A[1][1]
                        /\ fld.scalar = "invariant2" => x = 0
                  /\ fld.dim = 2 =>
                        /\ fld.scalar \in { "invariant3", "det", "determinant" }
                              => x = A[1][1] * A[2][2] - A[1][2] * A[2][1]
                        /\ fld.scalar = "invariant2"
                              => 2 * x = A[1][1] * A[2][2] - A[1][2] * A[2][1]
                  /\ fld.scalar \in { "det", "determinant" }
                        => x = Tensor2Field_to_scalar(fld.data, "invariant3").data[p]

\* the second invariant of a 2-d field with a non-zero determinant was taken
C22_Witness ==
    /\ Scalar("invariant2")
    /\ fld.dim = 2
    /\ fld.done.data[1] # 0

\* C23: the field symmetrize returns equals its transpose; its trace is the
\* trace of the original, or zero in every cell when make_traceless is set;
\* symmetrizing it again changes nothing; and without inplace the field it
\* was called on keeps its data.
C23_Symmetrize ==
    fld.op = "symmetrize" =>
        /\ \A p \in Axes(fld.out) : \A i, j \in 1..fld.dim :
              fld.out[p][i][j] = fld.out[p][j][i]
        /\ \A p \in Axes(fld.out) :
              Tr(fld.out[p]) = IF fld.make_traceless THEN 0 ELSE Tr(fld.data[p])
        /\ fld.again = fld.out
        /\ ~fld.inplace => fld.self = fld.data
        /\ fld.inplace => fld.self = fld.out

\* a field that was not symmetric and not traceless was made both
C23_Witness ==
    /\ fld.op = "symmetrize"
    /\ fld.make_traceless /\ ~fld.inplace
    /\ fld.dim = 2
    /\ fld.data[1][1][2] # fld.data[1][2][1]
    /\ Tr(fld.data[1]) # 0
    /\ fld.out # fld.data

\* the attributes of a grid that C24 compares
Geometry(g) == << g.shape, g.periodic, g.axes_bounds, g.discretization, g.axes_coords >>

\* C24: UnitGrid(shape, periodic) has on every axis the bounds (0, n), the
\* step 1 and the cell centres i + 1/2, as CartesianGrid([(0, n), ...], shape,
\* periodic) has; to_cartesian() returns a CartesianGrid with the same
\* bounds, shape, periodicity, steps, volume and cell centres.
C24_UnitIsCartesian ==
    /\ op.name = "UnitGrid" /\ err = "none" =>
          /\ grid.cls = "UnitGrid"
          /\ \A k \in Axes(grid.shape) :
                /\ grid.axes_bounds[k] = << 0, grid.shape[k] * One >>
                /\ grid.discretization[k] = One
                /\ Len(grid.axes_coords[k]) = grid.shape[k]
                /\ \A i \in 1..grid.shape[k] :
                      2 * grid.axes_coords[k][i] = (2 * i - 1) * One
          /\ Geometry(grid) =
                Geometry(CartesianGrid_init(
                             [ndim |-> 2,
                              rows |-> [k \in Axes(grid.shape) |-> << 0, grid.shape[k] * One >>]],
                             op.shape, op.periodic).grid)
    /\ op.name = "to_cartesian" =>
          /\ err = "none"
          /\ out.cls = "CartesianGrid"
          /\ Geometry(out) = Geometry(before)
          /\ out.cuboid.size = before.cuboid.size
          /\ grid = before

\* a 2-d unit grid with different cell numbers was converted
C24_Witness ==
    /\ op.name = "to_cartesian"
    /\ Len(before.shape) = 2
    /\ before.shape[1] # before.shape[2]
    /\ IsGrid(out)

\* shape and periodic, as given to CartesianGrid, fit a grid of d axes
FitsAxes(d) ==
    /\ check_shape_ok(op.shape)
    /\ Len(op.shape) \in { 1, d }
    /\ op.periodic.scalar \/ Len(op.periodic.flags) = d

\* C25 as stated: a flat bounds array of two numbers is rejected with
\* ValueError; an array of shape (d, 2) gives a grid of d axes with the given
\* lower and upper bounds (compared where they are given in order and their
\* difference is representable); a flat array of another length d and an
\* array of shape (d, 1) give a grid of d axes with lower bounds 0 and the
\* given upper bounds; every other array is rejected with ValueError.
C25_BoundsInterpreted ==
    op.name = "CartesianGrid" =>
        LET b == op.bounds
            d == Len(b.rows)
        IN  IF b.ndim = 1 /\ d = 2 THEN err = "ValueError" /\ ~IsGrid(grid)
            ELSE IF b.ndim = 2 /\ Len(b.rows[1]) = 2
            THEN FitsAxes(d) =>
                    /\ err = "none"
                    /\ Len(grid.shape) = d
                    /\ \A k \in 1..d :
                          b.rows[k][1] <= b.rows[k][2]
                          /\ FSub(b.rows[k][2], b.rows[k][1]) = b.rows[k][2] - b.rows[k][1]
                          => grid.axes_bounds[k] = b.rows[k]
            ELSE IF b.ndim = 1 \/ (b.ndim = 2 /\ Len(b.rows[1]) = 1)
            THEN FitsAxes(d) =>
                    /\ err = "none"
                    /\ Len(grid.shape) = d
                    /\ \A k \in 1..d : grid.axes_bounds[k] = << 0, b.rows[k][1] >>
            ELSE err = "ValueError" /\ ~IsGrid(grid)

\* the numerals of the indices 0, 1, 2 and 3
Numeral == << "0", "1", "2", "3" >>

\* the axes of the grid g, counted from 1, that the text names by its
\* zero-based index or by its name
NamedAxes(g, text) == { k \in Axes(g.shape) : text = Numeral[k] \/ text = g.axes[k] }

\* C28 as stated: 'auto' means 'cut_0'; data whose shape differs from the
\* shape of the grid, an unknown extraction method and a specifier that names
\* no axis of the grid (an unknown name, an index outside 0..dim-1) raise
\* ValueError; otherwise the call returns the line along the named axis, the
\* same whether the axis is given by index or by name, and a cut holds the
\* data at index shape[a] // 2 of every other axis a.
C28_LineData ==
    op.name = "get_line_data" =>
        LET e == IF op.extract.prefix = "auto" THEN [prefix |-> "cut_", rest |-> "0"]
                 ELSE op.extract
            named == NamedAxes(before, e.rest)
            a == CHOOSE k \in named : TRUE
        IN  IF \/ op.data.shape # before.shape
               \/ e.prefix \notin { "cut_", "project_" }
               \/ named = {}
            THEN err = "ValueError"
            ELSE /\ err = "none"
                 /\ ret.label_x = before.axes[a]
                 /\ ret.data_x = before.axes_coords[a]
                 /\ ret.extent_x = before.axes_bounds[a]
                 /\ ret = get_line_data(before, op.data,
                                        [prefix |-> e.prefix, rest |-> Numeral[a]]).ret
                 /\ ret = get_line_data(before, op.data,
                                        [prefix |-> e.prefix, rest |-> before.axes[a]]).ret
                 /\ e.prefix = "cut_" =>
                       ret.data_y =
                           [i \in 1..before.shape[a] |->
                               op.data.at[[k \in Axes(before.shape) |->
                                             IF k = a THEN i ELSE before.shape[k] \div 2 + 1]]]

\* the bounding cuboid of the grid g as an object with its writeable flags
CuboidOf(g) ==
    [pos |-> g.cuboid.pos, size |-> g.cuboid.size, mutable |-> g.cuboid.mutable,
     pos_w |-> g.cuboid.mutable, size_w |-> g.cuboid.mutable]

\* the cuboid of g is non-mutable, and after g.cuboid.size = value, for a value
\* of the dimension of g, its bounds (and so the volume, the region of the
\* random points and the mirror offsets) still are g.axes_bounds
CuboidKept(g) ==
    /\ ~g.cuboid.mutable
    /\ \A v \in { One, 2 * One } :
          Cuboid_bounds(Cuboid_assign_size(CuboidOf(g), [k \in Axes(g.shape) |-> v]).c)
              = g.axes_bounds

\* C29 as stated: the bounding cuboid of every grid, constructed or returned
\* by from_state, slice or to_cartesian, is non-mutable, so that after an
\* operation on grid.cuboid the volume, the region of the random points and
\* the mirror offsets still agree with grid.axes_bounds.
C29_CuboidImmutable ==
    /\ IsGrid(grid) => CuboidKept(grid)
    /\ IsGrid(out) => CuboidKept(out)

\* an operation was applied to a cuboid object
OnCuboid == cub.op # "none" /\ cub.before # NoCuboid

\* C26 as stated: every attempt to change a cuboid whose mutable flag is
\* False (assigning size or centroid, buffer(inplace=True), writing into pos
\* or size) fails and leaves pos and size as they were, and the writeable
\* flags of both arrays always equal the mutable flag.
C26_ImmutableKeeps ==
    /\ OnCuboid /\ ~cub.before.mutable /\ ~cub.before.pos_w /\ ~cub.before.size_w
       /\ cub.op \in { "size", "centroid", "buffer_inplace", "write" } =>
          /\ cub.raised # "none"
          /\ cub.c.pos = cub.before.pos
          /\ cub.c.size = cub.before.size
    /\ cub.op # "none" /\ cub.c # NoCuboid =>
          cub.c.pos_w = cub.c.mutable /\ cub.c.size_w = cub.c.mutable

\* C27 as stated: after a construction, and after an update (assigning size
\* or centroid, buffer) of a cuboid whose size had no negative component,
\* every component of the size of the cuboid (and of a cuboid that buffer
\* returns) is >= 0, and a
\* constructor flips a negative size, so that the corners are the smaller and
\* the larger endpoint.
C27_SizeNonNegative ==
    \/ cub.op \in { "Cuboid", "from_points", "from_bounds", "from_centerpoint" }
    \/ /\ cub.op \in { "size", "centroid", "buffer", "buffer_inplace" }
       /\ \A k \in Axes(cub.before.size) : cub.before.size[k] >= 0
    =>  /\ \A k \in Axes(cub.c.size) : cub.c.size[k] >= 0
        /\ \A k \in Axes(cub.out.size) : cub.out.size[k] >= 0
        /\ cub.op = "Cuboid" /\ cub.raised = "none" =>
              \A k \in Axes(cub.c.pos) :
                 /\ cub.c.pos[k] = Min2(cub.arg[1][k], FAdd(cub.arg[1][k], cub.arg[2][k]))
                 /\ FAdd(cub.c.pos[k], cub.c.size[k])
                       = Max2(cub.arg[1][k], FAdd(cub.arg[1][k], cub.arg[2][k]))

\* C30 as stated: an assignment to size that is rejected because the
\* dimension of the value differs from that of pos leaves pos, size,
\* the corners and the mutable flag as they were.
C30_RejectedSizeKeeps ==
    OnCuboid /\ cub.op = "size" /\ Len(cub.arg) # Len(cub.before.pos) =>
        /\ cub.raised = "ValueError"
        /\ cub.c.pos = cub.before.pos
        /\ cub.c.size = cub.before.size
        /\ cub.c.mutable = cub.before.mutable

====
